---- MODULE Spec2Model ----
(***************************************************************************)
(* Code-Tracker: the CSV import/export page (ImportExportPage), the        *)
(* Dashboard with its quick-add form, the NewProblemPage, the ProblemsPage *)
(* and the AnalyticsPage, and the `problems` table they read and write     *)
(* under its row-level security policies.                                  *)
(*                                                                         *)
(* Text is modelled character by character: a JavaScript string is a       *)
(* sequence of one-character strings, so that split, trim, replace and     *)
(* the quote-aware line splitter are computed the way the code computes    *)
(* them.  null and undefined are two distinguished one-element sequences   *)
(* that no text equals (their only element is longer than one character).  *)
(* Instants are whole hours, and a Date's local fields are computed from   *)
(* the offset of the browser's time zone.                                  *)
(***************************************************************************)
EXTENDS Integers, Sequences, FiniteSets, TLC

(* ------------------------------ bounds -------------------------------- *)

\* longest `problems` table the initial state draws
MaxRecords == 2
\* most data lines in a hand-written CSV file
MaxRows == 2
\* most rows the `problems` table accepts before the store answers with an error
MaxStore == 2

(* --------------------------- JavaScript values ------------------------ *)

NULL == <<"null">>
UNDEFINED == <<"undefined">>
\* the value of an expression whose evaluation threw a TypeError
TYPEERROR == <<"TypeError">>

COMMA == ","
QUOTE == "\""
NL == "\n"

\* String.prototype.trim strips these (the white space and line terminators
\* that occur in the model's texts)
IsSpace(c) == c \in {" ", "\n", "\t", "\r"}

RECURSIVE TrimStart(_)
TrimStart(s) ==
    IF s = <<>> THEN <<>>
    ELSE IF IsSpace(Head(s)) THEN TrimStart(Tail(s))
    ELSE s

RECURSIVE TrimEnd(_)
TrimEnd(s) ==
    IF s = <<>> THEN <<>>
    ELSE IF IsSpace(s[Len(s)]) THEN TrimEnd(SubSeq(s, 1, Len(s) - 1))
    ELSE s

\* String.prototype.trim
Trim(s) == TrimEnd(TrimStart(s))

\* String.prototype.includes for a one-character needle
Includes(s, c) == \E i \in 1..Len(s) : s[i] = c

\* Array.prototype.includes
ArrIncludes(arr, v) == \E i \in 1..Len(arr) : arr[i] = v

\* the pieces of s between the positions of the set `at`, in order
SplitAt(s, at) ==
    LET \* the k-th position of `at`; 0 and Len(s) + 1 fence the ends
        pos(k) == IF k = 0 THEN 0
                  ELSE IF k > Cardinality(at) THEN Len(s) + 1
                  ELSE CHOOSE i \in at : Cardinality({j \in at : j < i}) = k - 1
    IN  [k \in 1..(Cardinality(at) + 1) |-> SubSeq(s, pos(k - 1) + 1, pos(k) - 1)]

\* String.prototype.split for a one-character separator: the pieces between
\* consecutive occurrences of c, so that "" splits to [""]
Split(s, c) == SplitAt(s, {i \in 1..Len(s) : s[i] = c})

\* Array.prototype.join with a one-character separator
RECURSIVE Join(_, _)
Join(parts, c) ==
    IF parts = <<>> THEN <<>>
    ELSE IF Len(parts) = 1 THEN parts[1]
    ELSE parts[1] \o <<c>> \o Join(Tail(parts), c)

\* s.replace(/"/g, '""')
RECURSIVE DoubleQuotes(_)
DoubleQuotes(s) ==
    IF s = <<>> THEN <<>>
    ELSE IF Head(s) = QUOTE THEN <<QUOTE, QUOTE>> \o DoubleQuotes(Tail(s))
    ELSE <<Head(s)>> \o DoubleQuotes(Tail(s))

\* s.replace(/"/g, '')
StripQuotes(s) == SelectSeq(s, LAMBDA c : c # QUOTE)

(* ------------------------------ literals ------------------------------ *)

W_title == <<"t", "i", "t", "l", "e">>
W_platform == <<"p", "l", "a", "t", "f", "o", "r", "m">>
W_difficulty == <<"d", "i", "f", "f", "i", "c", "u", "l", "t", "y">>
W_topic == <<"t", "o", "p", "i", "c">>
W_status == <<"s", "t", "a", "t", "u", "s">>
W_problem_url == <<"p", "r", "o", "b", "l", "e", "m", "_", "u", "r", "l">>
W_solution_url == <<"s", "o", "l", "u", "t", "i", "o", "n", "_", "u", "r", "l">>
W_notes == <<"n", "o", "t", "e", "s">>
W_solved_at == <<"s", "o", "l", "v", "e", "d", "_", "a", "t">>
W_created_at == <<"c", "r", "e", "a", "t", "e", "d", "_", "a", "t">>
W_user_id == <<"u", "s", "e", "r", "_", "i", "d">>
Easy == <<"E", "a", "s", "y">>
Medium == <<"M", "e", "d", "i", "u", "m">>
Hard == <<"H", "a", "r", "d">>
Todo == <<"T", "o", "d", "o">>
InProgress == <<"I", "n", " ", "P", "r", "o", "g", "r", "e", "s", "s">>
Solved == <<"S", "o", "l", "v", "e", "d">>
Reviewed == <<"R", "e", "v", "i", "e", "w", "e", "d">>

\* the columns of the problems table that the page reads or writes
Columns == {W_user_id, W_title, W_platform, W_difficulty, W_topic, W_status,
            W_problem_url, W_solution_url, W_notes, W_solved_at, W_created_at}

\* CHECK (difficulty IN ('Easy', 'Medium', 'Hard'))
Difficulties == {Easy, Medium, Hard}
\* CHECK (status IN ('Todo', 'In Progress', 'Solved', 'Reviewed'))
Statuses == {Todo, InProgress, Solved, Reviewed}

(* ------------------------------- export ------------------------------- *)

\* const headers = ['title', ..., 'created_at'] of handleExport
exportHeaders ==
    <<W_title, W_platform, W_difficulty, W_topic, W_status, W_problem_url,
      W_solution_url, W_notes, W_solved_at, W_created_at>>

\* String(value) for the values a row of the table holds, which are all strings
String(value) == value

SerializeFieldNoNewline(value) ==
    IF value = NULL \/ value = UNDEFINED THEN <<>>
    ELSE IF Includes(String(value), COMMA) \/ Includes(String(value), QUOTE)
         THEN <<QUOTE>> \o DoubleQuotes(String(value)) \o <<QUOTE>>
    ELSE String(value)

\* the callback of headers.map in handleExport: one cell of the CSV
SerializeField(value) ==
    IF value = NULL \/ value = UNDEFINED THEN <<>>
    ELSE IF Includes(String(value), COMMA) \/ Includes(String(value), QUOTE)
            \/ Includes(String(value), NL)
         THEN <<QUOTE>> \o DoubleQuotes(String(value)) \o <<QUOTE>>
    ELSE String(value)

\* headers.map(...).join(',') for one row of data
ExportRow(problem) ==
    Join([k \in 1..Len(exportHeaders) |-> SerializeField(problem[exportHeaders[k]])],
         COMMA)

ExportCsvNoHeader(data) ==
    Join([i \in 1..Len(data) |-> ExportRow(data[i])], NL)

\* csvContent of handleExport
ExportCsv(data) ==
    Join(<<Join(exportHeaders, COMMA)>> \o [i \in 1..Len(data) |-> ExportRow(data[i])],
         NL)

(* ------------------------------- import ------------------------------- *)

\* the first position from i on where the loop of parseCSVLine does something
\* other than `current += char`: a quote, or a comma outside quotes
NextSpecial(line, i, inQuotes) ==
    LET special == {j \in i..Len(line) :
                       line[j] = QUOTE \/ (line[j] = COMMA /\ ~inQuotes)}
    IN  IF special = {} THEN Len(line) + 1
        ELSE CHOOSE j \in special : \A k \in special : j <= k

\* parseCSVLine: the loop over the characters of the line, from position i; the
\* iterations up to the next quote or separating comma, which only append to
\* current, are taken in one step
RECURSIVE ParseFrom(_, _, _, _, _)
ParseFrom(line, i, current, inQuotes, result) ==
    IF i > Len(line) THEN Append(result, current)
    ELSE IF line[i] = QUOTE
         THEN IF inQuotes /\ i + 1 <= Len(line) /\ line[i + 1] = QUOTE
              THEN ParseFrom(line, i + 2, Append(current, QUOTE), inQuotes, result)
              ELSE ParseFrom(line, i + 1, current, ~inQuotes, result)
    ELSE IF line[i] = COMMA /\ ~inQuotes
         THEN ParseFrom(line, i + 1, <<>>, inQuotes, Append(result, current))
    ELSE ParseFrom(line, NextSpecial(line, i, inQuotes),
                   current \o SubSeq(line, i, NextSpecial(line, i, inQuotes) - 1),
                   inQuotes, result)

\* a splitter that knows nothing of quotes
parseCSVLineNaive(line) == Split(line, COMMA)

\* a splitter for which every quote toggles, a doubled one too
parseCSVLineNoEscape(line) ==
    LET raw == SplitAt(line, {j \in 1..Len(line) :
                   /\ line[j] = COMMA
                   /\ Cardinality({i \in 1..(j - 1) : line[i] = QUOTE}) % 2 = 0})
    IN  [k \in 1..Len(raw) |-> SelectSeq(raw[k], LAMBDA c : c # QUOTE)]

parseCSVLine(line) == ParseFrom(line, 1, <<>>, FALSE, <<>>)

LinesNoFilter(text) == Split(text, NL)

\* lines of handleImport: text.split('\n').filter(line => line.trim())
Lines(text) == SelectSeq(Split(text, NL), LAMBDA line : Trim(line) # <<>>)

\* headers of handleImport: lines[0].split(',').map(h => h.trim().replace(/"/g, ''))
ParseHeaders(line) ==
    LET parts == Split(line, COMMA)
    IN  [i \in 1..Len(parts) |-> StripQuotes(Trim(parts[i]))]

requiredHeaders == <<W_title, W_platform, W_difficulty, W_topic>>

MissingHeadersFirstOnly(headers) ==
    LET all == SelectSeq(requiredHeaders, LAMBDA h : ~ArrIncludes(headers, h))
    IN  IF all = <<>> THEN <<>> ELSE <<all[1]>>

\* missingHeaders of handleImport
MissingHeaders(headers) ==
    SelectSeq(requiredHeaders, LAMBDA h : ~ArrIncludes(headers, h))

D_created == <<"2", "0", "2", "5", "-", "0", "8", "-", "1", "7", "T", "0", "8", ":", "2", "7", ":", "1", "4", "+", "0", "0", ":", "0", "0">>
D_solved == <<"2", "0", "2", "5", "-", "0", "8", "-", "1", "8", "T", "1", "0", ":", "0", "0", ":", "0", "0", "+", "0", "0", ":", "0", "0">>
D_day == <<"2", "0", "2", "5", "-", "0", "8", "-", "1", "7">>
D_now == <<"2", "0", "2", "5", "-", "0", "9", "-", "0", "1", "T", "0", "0", ":", "0", "0", ":", "0", "0", "+", "0", "0", ":", "0", "0">>

\* the texts of the model that Date.parse turns into a number; every other text
\* of the model gives NaN
ValidDates == {D_created, D_solved, D_day, D_now}

IsValidDateAny(value) == TRUE

\* !isNaN(Date.parse(value))
IsValidDate(value) == value \in ValidDates

\* JavaScript truthiness of a string, null or undefined
Truthy(v) == v # UNDEFINED /\ v # NULL /\ v # <<>>

CellValueUnguarded(values, index) ==
    LET v == IF index <= Len(values) THEN values[index] ELSE UNDEFINED
    IN  IF v = UNDEFINED THEN TYPEERROR
        ELSE IF Truthy(Trim(v)) THEN Trim(v) ELSE <<>>

CellValueNoTrim(values, index) ==
    LET v == IF index <= Len(values) THEN values[index] ELSE UNDEFINED
    IN  IF Truthy(v) THEN v ELSE <<>>

\* values[index]?.trim() || ''
CellValue(values, index) ==
    LET v == IF index <= Len(values) THEN values[index] ELSE UNDEFINED
        t == IF v = UNDEFINED THEN UNDEFINED ELSE Trim(v)
    IN  IF Truthy(t) THEN t ELSE <<>>

SetFieldKeepEmpty(problem, header, value) ==
    IF header \in {W_title, W_platform, W_topic}
    THEN [problem EXCEPT ![header] = value]
    ELSE IF header = W_difficulty
    THEN [problem EXCEPT ![header] =
              IF ArrIncludes(<<Easy, Medium, Hard>>, value) THEN value ELSE Easy]
    ELSE IF header = W_status
    THEN [problem EXCEPT ![header] =
              IF ArrIncludes(<<Todo, InProgress, Solved, Reviewed>>, value)
              THEN value ELSE Todo]
    ELSE IF header \in {W_problem_url, W_solution_url, W_notes}
    THEN [problem EXCEPT ![header] = value]
    ELSE IF header = W_solved_at
    THEN [problem EXCEPT ![header] =
              IF Truthy(value) /\ IsValidDate(value) THEN value ELSE NULL]
    ELSE problem

SetFieldNoDefault(problem, header, value) ==
    IF header \in {W_title, W_platform, W_topic, W_difficulty, W_status}
    THEN [problem EXCEPT ![header] = value]
    ELSE IF header \in {W_problem_url, W_solution_url, W_notes}
    THEN [problem EXCEPT ![header] = IF Truthy(value) THEN value ELSE NULL]
    ELSE IF header = W_solved_at
    THEN [problem EXCEPT ![header] =
              IF Truthy(value) /\ IsValidDate(value) THEN value ELSE NULL]
    ELSE problem

\* the switch (header) of handleImport
SetField(problem, header, value) ==
    IF header \in {W_title, W_platform, W_topic}
    THEN [problem EXCEPT ![header] = value]
    ELSE IF header = W_difficulty
    THEN [problem EXCEPT ![header] =
              IF ArrIncludes(<<Easy, Medium, Hard>>, value) THEN value ELSE Easy]
    ELSE IF header = W_status
    THEN [problem EXCEPT ![header] =
              IF ArrIncludes(<<Todo, InProgress, Solved, Reviewed>>, value)
              THEN value ELSE Todo]
    ELSE IF header \in {W_problem_url, W_solution_url, W_notes}
    THEN [problem EXCEPT ![header] = IF Truthy(value) THEN value ELSE NULL]
    ELSE IF header = W_solved_at
    THEN [problem EXCEPT ![header] =
              IF Truthy(value) /\ IsValidDate(value) THEN value ELSE NULL]
    ELSE problem

\* headers.forEach((header, index) => ...) of handleImport, from position index;
\* a TypeError thrown by the callback ends the loop
RECURSIVE BuildFrom(_, _, _, _)
BuildFrom(headers, values, index, problem) ==
    IF index > Len(headers) THEN problem
    ELSE IF CellValue(values, index) = TYPEERROR THEN TYPEERROR
    ELSE BuildFrom(headers, values, index + 1,
                   SetField(problem, headers[index], CellValue(values, index)))

\* const problem = { user_id: user.id } filled by the forEach
BuildProblem(headers, values, uid) ==
    BuildFrom(headers, values, 1,
              [c \in Columns |-> IF c = W_user_id THEN uid ELSE UNDEFINED])

IsValidProblemTitleOnly(problem) == Truthy(problem[W_title])

\* the negation of the guard of "Validate required fields" in handleImport
IsValidProblem(problem) ==
    /\ Truthy(problem[W_title])
    /\ Truthy(problem[W_platform])
    /\ Truthy(problem[W_difficulty])
    /\ Truthy(problem[W_topic])

\* for (let i = 1; i < lines.length; i++) of handleImport, from line i (1-based
\* here, so the header is lines[1]); acc holds problems, the problems built for
\* every data line, and the number of console.warn calls
RECURSIVE RowsFrom(_, _, _, _, _)
RowsFrom(lines, headers, uid, i, acc) ==
    IF i > Len(lines) THEN acc
    ELSE LET values == parseCSVLine(lines[i])
             problem == BuildProblem(headers, values, uid)
         IN  IF Len(values) = 0 THEN RowsFrom(lines, headers, uid, i + 1, acc)
             ELSE IF problem = TYPEERROR THEN [acc EXCEPT !.thrown = TRUE]
             ELSE IF ~IsValidProblem(problem)
             THEN RowsFrom(lines, headers, uid, i + 1,
                           [acc EXCEPT !.built = Append(@, problem),
                                       !.skipped = @ + 1])
             ELSE RowsFrom(lines, headers, uid, i + 1,
                           [acc EXCEPT !.built = Append(@, problem),
                                       !.problems = Append(@, problem)])

MsgMalformed == "CSV file must have a header row and at least one data row"
MsgMissing == "Missing required headers: "
MsgNoValid == "No valid problems found in the CSV file"
MsgTypeError == "Cannot read properties of undefined (reading 'trim')"

NoRows == [problems |-> <<>>, built |-> <<>>, skipped |-> 0, thrown |-> FALSE]

ParseResult(outcome, message, names, rows) ==
    [outcome |-> outcome, message |-> message, names |-> names,
     problems |-> rows.problems, built |-> rows.built, skipped |-> rows.skipped]

ParseImportNoEmptyCheck(text, uid) ==
    LET lines == Lines(text)
        headers == ParseHeaders(lines[1])
        missingHeaders == MissingHeaders(headers)
        rows == RowsFrom(lines, headers, uid, 2, NoRows)
    IN  IF Len(lines) < 2
        THEN ParseResult("MalformedInput", MsgMalformed, <<>>, NoRows)
        ELSE IF Len(missingHeaders) > 0
        THEN ParseResult("MissingColumns", MsgMissing, missingHeaders, NoRows)
        ELSE IF rows.thrown
        THEN ParseResult("TypeError", MsgTypeError, <<>>, rows)
        ELSE ParseResult("ok", "", <<>>, rows)

ParseImportAcceptsHeaderOnly(text, uid) ==
    LET lines == Lines(text)
        headers == ParseHeaders(lines[1])
        missingHeaders == MissingHeaders(headers)
        rows == RowsFrom(lines, headers, uid, 2, NoRows)
    IN  IF Len(lines) < 1
        THEN ParseResult("MalformedInput", MsgMalformed, <<>>, NoRows)
        ELSE IF Len(missingHeaders) > 0
        THEN ParseResult("MissingColumns", MsgMissing, missingHeaders, NoRows)
        ELSE IF rows.thrown
        THEN ParseResult("TypeError", MsgTypeError, <<>>, rows)
        ELSE ParseResult("ok", "", <<>>, rows)

\* the parsing part of the try block of handleImport, from `const lines` to the
\* check of problems.length: the error thrown, or the problems to insert
ParseImport(text, uid) ==
    LET lines == Lines(text)
        headers == ParseHeaders(lines[1])
        missingHeaders == MissingHeaders(headers)
        rows == RowsFrom(lines, headers, uid, 2, NoRows)
    IN  IF Len(lines) < 2
        THEN ParseResult("MalformedInput", MsgMalformed, <<>>, NoRows)
        ELSE IF Len(missingHeaders) > 0
        THEN ParseResult("MissingColumns", MsgMissing, missingHeaders, NoRows)
        ELSE IF rows.thrown
        THEN ParseResult("TypeError", MsgTypeError, <<>>, rows)
        ELSE IF Len(rows.problems) = 0
        THEN ParseResult("NoValidRows", MsgNoValid, <<>>, rows)
        ELSE ParseResult("ok", "", <<>>, rows)

(* ------------------------- the problems table ------------------------- *)

\* what the table stores for a row sent by insert: DEFAULT 'Todo' for status,
\* DEFAULT now() for created_at, NULL for the other columns left out
InsertedRow(problem) ==
    [c \in Columns |->
        IF problem[c] # UNDEFINED THEN problem[c]
        ELSE IF c = W_status THEN Todo
        ELSE IF c = W_created_at THEN D_now
        ELSE NULL]

\* the NOT NULL and CHECK constraints of CREATE TABLE public.problems
RowAccepted(row) ==
    /\ \A c \in {W_user_id, W_title, W_platform, W_difficulty, W_topic,
                 W_status, W_created_at} : row[c] # NULL
    /\ row[W_difficulty] \in Difficulties
    /\ row[W_status] \in Statuses

(* ------------------------------ inputs -------------------------------- *)

U1 == <<"u", "1">>

\* header lines of hand-written CSV files
H_required == <<"t", "i", "t", "l", "e", ",", "p", "l", "a", "t", "f", "o", "r", "m", ",", "d", "i", "f", "f", "i", "c", "u", "l", "t", "y", ",", "t", "o", "p", "i", "c">>
H_optional == <<"t", "i", "t", "l", "e", ",", "p", "l", "a", "t", "f", "o", "r", "m", ",", "d", "i", "f", "f", "i", "c", "u", "l", "t", "y", ",", "t", "o", "p", "i", "c", ",", "s", "t", "a", "t", "u", "s", ",", "p", "r", "o", "b", "l", "e", "m", "_", "u", "r", "l", ",", "s", "o", "l", "v", "e", "d", "_", "a", "t">>
H_permuted == <<"t", "o", "p", "i", "c", ",", "d", "i", "f", "f", "i", "c", "u", "l", "t", "y", ",", "p", "l", "a", "t", "f", "o", "r", "m", ",", "t", "i", "t", "l", "e">>
H_missing == <<"t", "i", "t", "l", "e", ",", "p", "l", "a", "t", "f", "o", "r", "m">>
H_quoted == <<"\"", "t", "i", "t", "l", "e", "\"", ",", "\"", "p", "l", "a", "t", "f", "o", "r", "m", "\"", ",", "\"", "d", "i", "f", "f", "i", "c", "u", "l", "t", "y", "\"", ",", "\"", "t", "o", "p", "i", "c", "\"", ",", "e", "x", "t", "r", "a">>
H_padded == <<" ", "t", "i", "t", "l", "e", " ", ",", "p", "l", "a", "t", "f", "o", "r", "m", ",", " ", "d", "i", "f", "f", "i", "c", "u", "l", "t", "y", ",", "t", "o", "p", "i", "c", " ">>
H_quotedComma == <<"\"", "t", "i", "t", "l", "e", ",", "x", "\"", ",", "p", "l", "a", "t", "f", "o", "r", "m", ",", "d", "i", "f", "f", "i", "c", "u", "l", "t", "y", ",", "t", "o", "p", "i", "c">>
H_blank == <<" ">>

HeaderPool == {H_required, H_optional, H_permuted, H_missing, H_quoted, H_padded,
               H_quotedComma, H_blank}

\* data lines of hand-written CSV files
R_blankTitle == <<" ", ",", "a", ",", "H", "a", "r", "d", ",", "b">>
R_unknown == <<"a", "b", ",", "a", ",", "B", "o", "g", "u", "s", ",", "b", ",", "N", "o", "p", "e", ",", " ", ",", "x", "x">>
R_short == <<"a", "b", ",", "a">>
R_quoted == <<"\"", "a", ",", "b", "\"", ",", " ", "a", " ", ",", "M", "e", "d", "i", "u", "m", ",", "\"", "b", "\"", "\"", "c", "\"">>
R_unbalanced == <<"a", "b", ",", "a", ",", "E", "a", "s", "y", ",", "\"", "b">>
R_solved == <<"a", "b", ",", "a", ",", "H", "a", "r", "d", ",", "b", ",", "S", "o", "l", "v", "e", "d", ",", " ", "u", ",", "2", "0", "2", "5", "-", "0", "8", "-", "1", "7">>
R_empty == <<>>
R_spaces == <<" ", " ">>

RowPool == {R_blankTitle, R_unknown, R_short, R_quoted, R_unbalanced,
            R_solved, R_empty, R_spaces}

\* the data lines "a,b",c""d,"e""f","" and """x"",y",z"w,v"
R_quotes == <<"\"", "a", ",", "b", "\"", ",", "c", "\"", "\"", "d", ",", "\"", "e", "\"", "\"", "f", "\"", ",", "\"", "\"">>
R_tripled == <<"\"", "\"", "\"", "x", "\"", "\"", ",", "y", "\"", ",", "z", "\"", "w", ",", "v", "\"">>

\* a file whose data lines hold quotes of every kind
QuotesFile == Join(<<H_required, R_quotes, R_tripled>>, NL)

SeqsUpTo(S, n) == UNION {[1..k -> S] : k \in 0..n}

\* the CSV files a user may pick: a header line followed by up to MaxRows lines
Files ==
    {Join(<<h>> \o rows, NL) : h \in HeaderPool, rows \in SeqsUpTo(RowPool, MaxRows)}
    \cup {QuotesFile}

T_plain == <<"a", "b">>
T_comma == <<"a", ",", "b">>
T_quote == <<"\"", "a", "\"">>
\* the title A, "B" C
T_example == <<"A", ",", " ", "\"", "B", "\"", " ", "C">>
T_padded == <<" ", "a">>
T_blank == <<" ">>
N_plain == <<"n">>
N_multiline == <<"a", "\n", "b">>
N_mixed == <<",", "\"", "\n">>

\* a row of the problems table owned by U1
Row(title, status, notes, solved_at) ==
    [c \in Columns |->
        IF c = W_user_id THEN U1
        ELSE IF c = W_title THEN title
        ELSE IF c = W_platform THEN <<"a">>
        ELSE IF c = W_difficulty THEN Medium
        ELSE IF c = W_topic THEN <<"b">>
        ELSE IF c = W_status THEN status
        ELSE IF c = W_notes THEN notes
        ELSE IF c = W_solved_at THEN solved_at
        ELSE IF c = W_created_at THEN D_created
        ELSE NULL]

\* rows the forms and the import can have put in the table: a title is one line
\* of text (an <input>), notes may hold line breaks (a <textarea>)
StoredRows ==
    {Row(t, Todo, NULL, NULL) : t \in {T_plain, T_comma, T_quote, T_example, T_padded,
                                     T_blank}}
    \cup {Row(T_plain, Solved, n, D_solved) : n \in {N_plain, N_multiline, N_mixed}}

Stores == SeqsUpTo(StoredRows, MaxRecords)

(* ------------------------------- state -------------------------------- *)

VARIABLES
    user,          \* useAuth().user: the signed-in user's id, or NULL
    store,         \* the rows of public.problems, in insertion order
    disk,          \* the CSV files the user has at hand besides the downloads
    isExporting,   \* useState(false) of ImportExportPage
    exportPc,      \* where handleExport stands: "idle" or "select"
    csvContent,    \* the text of the last downloaded file, or NoFile
    exportedData,  \* `data` of the handleExport call that wrote csvContent
    isImporting,   \* useState(false) of ImportExportPage
    importPc,      \* where handleImport stands: "idle", "reading" or "insert"
    file,          \* the text of the file handed to handleImport
    parsed,        \* what the parsing of `file` came to, or NoParse
    toast,         \* the last toast shown
    now,           \* the instant the browser's clock shows (new Date(), Date.now())
    zone,          \* the time zone of the browser
    page,          \* the route shown: "import-export", "dashboard" or "analytics"
    statsPc,       \* where fetchStats stands: "idle" or "select"
    stats,         \* useState<Stats> of Dashboard
    loading,       \* useState(true) of AnalyticsPage
    analyticsPc,   \* where fetchProblems stands: "idle" or "select"
    problems,      \* useState<Problem[]>([]) of AnalyticsPage
    charts,        \* what the last render of AnalyticsPage computed
    ids,           \* the id column of public.problems, row by row of `store`
    addLoading,    \* useState(false) isLoading of Dashboard
    addPc,         \* where handleQuickAdd stands: "idle" or "insert"
    addForm,       \* title, platform, difficulty and topic of the quick-add form
    formLoading,   \* useState(false) isLoading of NewProblemPage
    formPc,        \* where handleSubmit stands: "idle" or "insert"
    formData,      \* useState formData of NewProblemPage
    listLoading,   \* useState(true) loading of ProblemsPage
    listPc,        \* where fetchProblems of ProblemsPage stands: "idle" or "select"
    problemList,   \* useState<Problem[]>([]) problems of ProblemsPage
    deletes,       \* the handleDelete calls awaiting the answer of the store
    requests,      \* the store requests made by the latest run of every handler
    answer         \* the last answer of the store: to which handler, and whether an error

\* the state of the import/export page and of the table
ioVars == <<user, store, disk, isExporting, exportPc, csvContent, exportedData,
            isImporting, importPc, file, parsed, toast>>

\* the clock and the state of Dashboard and AnalyticsPage
pageVars == <<now, zone, page, statsPc, stats, loading, analyticsPc, problems, charts>>

\* the two forms that add a problem
formVars == <<addLoading, addPc, addForm, formLoading, formPc, formData>>

\* the state of ProblemsPage
listVars == <<listLoading, listPc, problemList, deletes>>

\* the forms, the list, the ids of the table and the traffic with the store
editVars == <<ids, formVars, listVars, requests, answer>>

vars == <<ioVars, pageVars, editVars>>

NoFile == <<"no file">>
NoParse == ParseResult("none", "", <<>>, NoRows)
NoToast == [variant |-> "none", title |-> "", message |-> "", names |-> <<>>, count |-> 0]

Toast(variant, title, message, names, count) ==
    [variant |-> variant, title |-> title, message |-> message, names |-> names,
     count |-> count]

InitCommon ==
    /\ isExporting = FALSE
    /\ exportPc = "idle"
    /\ csvContent = NoFile
    /\ exportedData = <<>>
    /\ isImporting = FALSE
    /\ importPc = "idle"
    /\ file = NoFile
    /\ parsed = NoParse
    /\ toast = NoToast

(* ----------------------------- dates and clocks ------------------------ *)

\* Instants are counted in whole hours since 2025-02-01T00:00:00Z.

\* (1000 * 3600 * 24) of calculateStreak and 86400000 of `yesterday`, in hours
HoursPerDay == 24

DIGITS == <<"0", "1", "2", "3", "4", "5", "6", "7", "8", "9">>

Digit(c) == CHOOSE d \in 0..9 : DIGITS[d + 1] = c

\* the number written by the two digits of s from position i
TwoDigits(s, i) == Digit(s[i]) * 10 + Digit(s[i + 1])

\* the days of 2025 before the first of each month
DaysBeforeMonth == <<0, 31, 59, 90, 120, 151, 181, 212, 243, 273, 304, 334>>

\* new Date(text).getTime() for the texts the table holds for a timestamptz,
\* 2025-MM-DDTHH:MM:SS+00:00, and for the date-only 2025-MM-DD (midnight UTC)
DateTime(text) ==
    (DaysBeforeMonth[TwoDigits(text, 6)] + TwoDigits(text, 9) - 1 - 31) * HoursPerDay
    + (IF Len(text) > 10 THEN TwoDigits(text, 12) ELSE 0)

\* the time zone of the browser: its offset from UTC in hours, before and from
\* the instant at which summer time begins
UTC == [std |-> 0, dst |-> 0, switchAt |-> 0]
Tokyo == [std |-> 9, dst |-> 9, switchAt |-> 0]
\* America/New_York: summer time begins at 2025-03-09T07:00:00Z
NewYork == [std |-> 0 - 5, dst |-> 0 - 4, switchAt |-> 871]

Zones == {UTC, Tokyo, NewYork}

\* the zone's offset at an instant
Offset(z, t) == IF t >= z.switchAt THEN z.dst ELSE z.std

\* Date.prototype.toDateString: the local calendar day of the instant, as the
\* number of days since 2025-02-01
toDateString(z, t) == (t + Offset(z, t)) \div HoursPerDay

\* Date.prototype.getHours
getHours(z, t) == (t + Offset(z, t)) % HoursPerDay

\* the instant at which the zone's clocks show the given day and hour
LocalTime(z, day, hour) ==
    IF day * HoursPerDay + hour - z.std < z.switchAt
    THEN day * HoursPerDay + hour - z.std
    ELSE day * HoursPerDay + hour - z.dst

\* new Date(dateString).getTime() for a string made by toDateString: the
\* local midnight of the day
DateStringTime(z, day) == LocalTime(z, day, 0)

\* date.setDate(date.getDate() - n): the same hour on the clock, n days earlier
MinusDays(z, t, n) == LocalTime(z, toDateString(z, t) - n, getHours(z, t))

\* date.toISOString().split('T')[0]: the calendar day of the instant in UTC
toISODate(t) == t \div HoursPerDay

\* 2025-03-10T16:00:00Z and 2025-03-10T04:00:00Z
NowAfternoon == 904
NowNight == 892
Nows == {NowAfternoon, NowNight}

(* ------------------------------ Dashboard ------------------------------ *)

\* the elements of s at the positions of `keep`, in order
Pick(s, keep) ==
    [k \in 1..Cardinality(keep) |->
        s[CHOOSE i \in keep : Cardinality({j \in keep : j < i}) = k - 1]]

\* Array.prototype.sort with a comparator that puts the greater key first,
\* keys[i] being the key of seq[i]; the sort is stable, so elements of equal key
\* keep their order
SortDescBy(seq, keys) ==
    LET rank(i) == Cardinality({j \in 1..Len(seq) : keys[j] > keys[i]})
                   + Cardinality({j \in 1..i : keys[j] = keys[i]})
    IN  [k \in 1..Len(seq) |-> seq[CHOOSE i \in 1..Len(seq) : rank(i) = k]]

\* [...new Set(arr)]: the first occurrence of every value, in order
Unique(arr) ==
    Pick(arr, {i \in 1..Len(arr) : \A j \in 1..(i - 1) : arr[j] # arr[i]})

\* the for loop of calculateStreak, from position i of uniqueDates
RECURSIVE CountConsecutive(_, _, _, _)
CountConsecutive(z, uniqueDates, i, streak) ==
    IF i > Len(uniqueDates) THEN streak
    ELSE IF DateStringTime(z, uniqueDates[i - 1]) - DateStringTime(z, uniqueDates[i])
            = HoursPerDay
         THEN CountConsecutive(z, uniqueDates, i + 1, streak + 1)
    ELSE streak

\* calculateStreak, on a clock that shows the instant t in the zone z
calculateStreak(solvedProblems, z, t) ==
    LET dated == SelectSeq(solvedProblems, LAMBDA p : Truthy(p.solved_at))
        dateStrings == [i \in 1..Len(dated) |-> toDateString(z, DateTime(dated[i].solved_at))]
        solvedDates ==
            SortDescBy(dateStrings,
                       [i \in 1..Len(dated) |-> DateStringTime(z, dateStrings[i])])
        uniqueDates == Unique(solvedDates)
    IN  IF Len(solvedProblems) = 0 THEN 0
        ELSE IF Len(uniqueDates) = 0 THEN 0
        ELSE IF \/ uniqueDates[1] = toDateString(z, t)
                \/ uniqueDates[1] = toDateString(z, t - HoursPerDay)
             THEN CountConsecutive(z, uniqueDates, 2, 1)
        ELSE 0

\* sevenDaysAgo.setDate(sevenDaysAgo.getDate() - 7)
WindowDays == 7

\* .select('solved_at').eq('user_id', uid).eq('status', 'Solved')
\* .not('solved_at', 'is', null)
SelectSolved(uid) ==
    LET rows == SelectSeq(store, LAMBDA row : /\ row[W_user_id] = uid
                                              /\ row[W_status] = Solved
                                              /\ row[W_solved_at] # NULL)
    IN  [i \in 1..Len(rows) |-> [solved_at |-> rows[i][W_solved_at]]]

\* what fetchStats hands to setStats
ComputeStats(solvedProblems, z, t) ==
    [totalSolved |-> Len(solvedProblems),
     last7Days |->
         Len(SelectSeq(solvedProblems,
                       LAMBDA p : /\ Truthy(p.solved_at)
                                  /\ DateTime(p.solved_at) >= MinusDays(z, t, WindowDays))),
     currentStreak |-> calculateStreak(solvedProblems, z, t)]

(* ------------------------------ Analytics ------------------------------ *)

analyticsColumns == {W_difficulty, W_topic, W_status, W_solved_at, W_created_at}

\* .select('difficulty, topic, status, solved_at, created_at').eq('user_id', uid)
SelectForAnalytics(uid) ==
    LET rows == SelectSeq(store, LAMBDA row : row[W_user_id] = uid)
    IN  [i \in 1..Len(rows) |-> [c \in analyticsColumns |-> rows[i][c]]]

\* problems.filter(p => p.difficulty === d).length
CountDifficulty(list, d) == Len(SelectSeq(list, LAMBDA p : p[W_difficulty] = d))

difficultyDataWithZeros(list) ==
    <<[name |-> Easy, value |-> CountDifficulty(list, Easy), color |-> "#22c55e"],
      [name |-> Medium, value |-> CountDifficulty(list, Medium), color |-> "#f59e0b"],
      [name |-> Hard, value |-> CountDifficulty(list, Hard), color |-> "#ef4444"]>>

\* difficultyData of AnalyticsPage
difficultyData(list) ==
    SelectSeq(<<[name |-> Easy, value |-> CountDifficulty(list, Easy), color |-> "#22c55e"],
                [name |-> Medium, value |-> CountDifficulty(list, Medium), color |-> "#f59e0b"],
                [name |-> Hard, value |-> CountDifficulty(list, Hard), color |-> "#ef4444"]>>,
              LAMBDA item : item.value > 0)

W_constructor == <<"c", "o", "n", "s", "t", "r", "u", "c", "t", "o", "r">>

\* the property names that {} inherits from Object.prototype, among the topics
\* of the model
InheritedKeys == {W_constructor}

\* String(Object), the text that + makes of the inherited constructor
FunctionText == <<"function Object() { [native code] }">>

\* a JavaScript number, and a JavaScript string, as values of one shape
Number(n) == [type |-> "number", number |-> n, string |-> <<>>]
Text(s) == [type |-> "string", number |-> 0, string |-> s]

\* acc[topic] at the end of the reduce: `(acc[topic] || 0) + 1` has been taken
\* once per record of the topic. For an inherited key the first acc[topic] is
\* the inherited function, which + joins with "1" into a text, and every later
\* + appends another "1"
ReducedCount(list, topic) ==
    LET n == Len(SelectSeq(list, LAMBDA p : p[W_topic] = topic))
    IN  IF topic \in InheritedKeys
        THEN Text(FunctionText \o [i \in 1..n |-> "1"])
        ELSE Number(n)

\* a property name that is an array index: digits without a leading zero
IsIndexKey(key) ==
    /\ Len(key) >= 1
    /\ \A i \in 1..Len(key) : \E d \in 1..10 : DIGITS[d] = key[i]
    /\ Len(key) = 1 \/ key[1] # "0"

RECURSIVE KeyNumber(_)
KeyNumber(key) ==
    IF key = <<>> THEN 0
    ELSE KeyNumber(SubSeq(key, 1, Len(key) - 1)) * 10 + Digit(key[Len(key)])

\* Object.entries(acc).map(([topic, count]) => ({ topic, count })): the index
\* keys in ascending order, then the other keys in the order of their creation
TopicEntries(list) ==
    LET topics == Unique([i \in 1..Len(list) |-> list[i][W_topic]])
        numeric == SelectSeq(topics, IsIndexKey)
        indexKeys == SortDescBy(numeric, [i \in 1..Len(numeric) |-> 0 - KeyNumber(numeric[i])])
        ordered == indexKeys \o SelectSeq(topics, LAMBDA k : ~IsIndexKey(k))
    IN  [i \in 1..Len(ordered) |->
            [topic |-> ordered[i], count |-> ReducedCount(list, ordered[i])]]

\* (a, b) => b.count - a.count, where a difference that is NaN counts as 0
CompareCount(a, b) ==
    IF a.count.type = "number" /\ b.count.type = "number"
    THEN b.count.number - a.count.number
    ELSE 0

\* the comparator is a consistent one on the entries; otherwise the order that
\* sort leaves them in is implementation-defined
ConsistentOn(entries) ==
    \A a, b, c \in 1..Len(entries) :
        (CompareCount(entries[a], entries[b]) = 0 /\ CompareCount(entries[b], entries[c]) = 0)
            => CompareCount(entries[a], entries[c]) = 0

\* the arrays that .sort((a, b) => b.count - a.count) may return
SortedByCount(entries) ==
    IF \A i \in 1..Len(entries) : entries[i].count.type = "number"
    THEN {SortDescBy(entries, [i \in 1..Len(entries) |-> entries[i].count.number])}
    ELSE IF ConsistentOn(entries) THEN {entries}
    ELSE {[i \in 1..Len(entries) |-> entries[f[i]]] : f \in Permutations(1..Len(entries))}

\* .slice(0, 8)
TopTopics == 8

slice(arr, n) == SubSeq(arr, 1, IF Len(arr) < n THEN Len(arr) ELSE n)

\* the values topicData may have
topicData(list) == {slice(s, TopTopics) : s \in SortedByCount(TopicEntries(list))}

\* for (let i = 29; i >= 0; i--)
ActivityBack == 29

activityDataSolvedOnly(list, z, t) ==
    [k \in 1..(ActivityBack + 1) |->
        LET date == MinusDays(z, t, ActivityBack + 1 - k)
        IN  [date |-> toISODate(date),
             solved |->
                 Len(SelectSeq(list,
                               LAMBDA p : /\ p[W_status] = Solved
                                          /\ Truthy(p[W_solved_at])
                                          /\ toDateString(z, DateTime(p[W_solved_at]))
                                                 = toDateString(z, date)))]]

\* activityData of AnalyticsPage, on a clock that shows the instant t in zone z
activityData(list, z, t) ==
    [k \in 1..(ActivityBack + 1) |->
        LET date == MinusDays(z, t, ActivityBack + 1 - k)
        IN  [date |-> toISODate(date),
             solved |->
                 Len(SelectSeq(list,
                               LAMBDA p : /\ Truthy(p[W_solved_at])
                                          /\ toDateString(z, DateTime(p[W_solved_at]))
                                                 = toDateString(z, date)))]]

\* the pairs (solved, total) up to a total of 200 for which the double
\* (solved / total) * 100 lies just below a value that is exactly a half: 23 / 40
\* is 0.575, whose double times 100 is 57.49999999999999
InexactHalves == {<<23, 40>>, <<46, 80>>, <<69, 120>>, <<92, 160>>, <<29, 200>>,
                  <<57, 200>>, <<113, 200>>, <<115, 200>>}

\* Math.round((solved / total) * 100) in double arithmetic, for total up to 200
RoundedPercent(solved, total) ==
    IF <<solved, total>> \in InexactHalves
    THEN (200 * solved + total) \div (2 * total) - 1
    ELSE (200 * solved + total) \div (2 * total)

\* what a render of AnalyticsPage computes from `problems`
Renders(list, z, t) ==
    {[difficultyData |-> difficultyData(list),
      topicData |-> topics,
      activityData |-> activityData(list, z, t),
      totalProblems |-> Len(list),
      solvedProblems |-> Len(SelectSeq(list, LAMBDA p : p[W_status] = Solved)),
      solveRate |-> IF Len(list) > 0
                    THEN RoundedPercent(Len(SelectSeq(list, LAMBDA p : p[W_status] = Solved)),
                                        Len(list))
                    ELSE 0] : topics \in topicData(list)}

(* ------------------------- inputs of the two pages --------------------- *)

\* most rows of a table drawn freely from StatRows
MaxProblems == 2
\* the distinct topics of the table ManyTopicsStore
ManyTopics == 9
\* the rows of the table BigStore, and how many of them are solved
BigTotal == 40
BigSolved == 23

\* 2025-03-10T15:00:00+00:00
D_0310 == <<"2", "0", "2", "5", "-", "0", "3", "-", "1", "0", "T", "1", "5", ":", "0", "0", ":", "0", "0", "+", "0", "0", ":", "0", "0">>
\* 2025-03-09T12:00:00+00:00
D_0309 == <<"2", "0", "2", "5", "-", "0", "3", "-", "0", "9", "T", "1", "2", ":", "0", "0", ":", "0", "0", "+", "0", "0", ":", "0", "0">>
\* 2025-03-08T12:00:00+00:00
D_0308 == <<"2", "0", "2", "5", "-", "0", "3", "-", "0", "8", "T", "1", "2", ":", "0", "0", ":", "0", "0", "+", "0", "0", ":", "0", "0">>
\* 2025-03-12T12:00:00+00:00
D_0312 == <<"2", "0", "2", "5", "-", "0", "3", "-", "1", "2", "T", "1", "2", ":", "0", "0", ":", "0", "0", "+", "0", "0", ":", "0", "0">>
\* 2025-03-03T16:00:00+00:00
D_0303 == <<"2", "0", "2", "5", "-", "0", "3", "-", "0", "3", "T", "1", "6", ":", "0", "0", ":", "0", "0", "+", "0", "0", ":", "0", "0">>
\* 2025-02-09T12:00:00+00:00
D_0209 == <<"2", "0", "2", "5", "-", "0", "2", "-", "0", "9", "T", "1", "2", ":", "0", "0", ":", "0", "0", "+", "0", "0", ":", "0", "0">>
\* 2025-02-08T12:00:00+00:00
D_0208 == <<"2", "0", "2", "5", "-", "0", "2", "-", "0", "8", "T", "1", "2", ":", "0", "0", ":", "0", "0", "+", "0", "0", ":", "0", "0">>

TopicDp == <<"d", "p">>
Topic2 == <<"2">>
TopicGraphs == <<"g", "r", "a", "p", "h", "s">>
LETTERS == <<"a", "b", "c", "d", "e", "f", "g", "h", "i", "j", "k", "l">>

\* a row of the problems table owned by U1, as the forms or an import leave it
StatRow(difficulty, topic, status, solved_at) ==
    [c \in Columns |->
        IF c = W_user_id THEN U1
        ELSE IF c = W_title THEN T_plain
        ELSE IF c = W_platform THEN <<"a">>
        ELSE IF c = W_difficulty THEN difficulty
        ELSE IF c = W_topic THEN topic
        ELSE IF c = W_status THEN status
        ELSE IF c = W_solved_at THEN solved_at
        ELSE IF c = W_created_at THEN D_0208
        ELSE NULL]

\* an import can leave any status with any solved_at, a form leaves solved_at
\* set exactly for Solved
StatRows ==
    {StatRow(Easy, TopicDp, Solved, D_0310),
     StatRow(Medium, Topic2, Solved, D_0309),
     StatRow(Hard, TopicDp, Solved, D_0308),
     StatRow(Easy, W_constructor, Solved, D_0312),
     StatRow(Medium, TopicDp, Solved, D_0303),
     StatRow(Medium, Topic2, Todo, D_0209),
     StatRow(Hard, TopicGraphs, Reviewed, D_0208),
     StatRow(Easy, TopicDp, Solved, NULL)}

\* solved on 8, 10 and 9 March
ThreeDaysStore ==
    <<StatRow(Hard, TopicDp, Solved, D_0308), StatRow(Easy, TopicDp, Solved, D_0310),
      StatRow(Medium, Topic2, Solved, D_0309)>>

\* one row for each of ManyTopics topics, then one more of the first topic and
\* two more of the last
ManyTopicsStore ==
    [i \in 1..(ManyTopics + 3) |->
        StatRow(Easy,
                <<LETTERS[IF i <= ManyTopics THEN i
                          ELSE IF i = ManyTopics + 1 THEN 1 ELSE ManyTopics]>>,
                Todo, NULL)]

\* BigTotal rows, the first BigSolved of them solved
BigStore ==
    [i \in 1..BigTotal |->
        IF i <= BigSolved THEN StatRow(Easy, TopicDp, Solved, D_0309)
        ELSE StatRow(Hard, TopicGraphs, Todo, NULL)]

StatStores ==
    SeqsUpTo(StatRows, MaxProblems) \cup {ThreeDaysStore, ManyTopicsStore, BigStore}

(* -------------------- the store: requests and policies ----------------- *)

\* the handlers of the pages that call the store
Handlers == {"fetchStats", "handleQuickAdd", "handleSubmit", "handleExport",
             "handleImport", "fetchAnalytics", "fetchProblems", "handleDelete"}

\* a request to supabase.from('problems'): the operation, the value of
\* .eq('user_id', ...) (NULL when the request has no such filter), the rows of
\* an insert, and the values of .eq('id', ...)
Request(op, uid, rows, id) == [op |-> op, user_id |-> uid, rows |-> rows, id |-> id]

SelectRequest(uid) == Request("select", uid, <<>>, {})
InsertRequest(rows) == Request("insert", NULL, rows, {})
DeleteRequest(problemId, uid) == Request("delete", uid, <<>>, {problemId})

NoRequests == [h \in Handlers |-> <<>>]

NoAnswer == [to |-> "none", error |-> FALSE]
Answer(h, error) == [to |-> h, error |-> error]

\* FOR SELECT USING (auth.uid() = user_id); auth is auth.uid(), NULL for a
\* request without a session, and NULL = user_id is not true
PolicySelect(auth, row) == auth # NULL /\ auth = row[W_user_id]

\* FOR INSERT WITH CHECK (auth.uid() = user_id)
PolicyInsert(auth, row) == auth # NULL /\ auth = row[W_user_id]

\* FOR UPDATE USING (auth.uid() = user_id) WITH CHECK (auth.uid() = user_id)
PolicyUpdate(auth, old, new) ==
    /\ auth # NULL /\ auth = old[W_user_id]
    /\ auth # NULL /\ auth = new[W_user_id]

PolicyDeleteAnyone(auth, row) == auth # NULL

\* FOR DELETE USING (auth.uid() = user_id)
PolicyDelete(auth, row) == auth # NULL /\ auth = row[W_user_id]

\* id UUID NOT NULL DEFAULT gen_random_uuid(): n ids that no row of the table has
FreshIds(n) ==
    LET top == IF Len(ids) = 0 THEN 0
               ELSE CHOOSE m \in {ids[i] : i \in 1..Len(ids)} :
                        \A i \in 1..Len(ids) : ids[i] <= m
    IN  [k \in 1..n |-> top + k]

\* a row of the table as select('*') returns it
Problem(i) == [id |-> ids[i], fields |-> store[i]]

\* the positions of the rows that select('*').eq('user_id', uid) returns to the
\* session of auth
Visible(auth, uid) ==
    {i \in 1..Len(store) : PolicySelect(auth, store[i]) /\ store[i][W_user_id] = uid}

\* .order('created_at', { ascending: false }): the rows in any of the orders
\* that has no earlier row before a later one
SelectOrdered(auth, uid) ==
    {[k \in 1..Len(order) |-> Problem(order[k])] :
        order \in {o \in [1..Cardinality(Visible(auth, uid)) -> Visible(auth, uid)] :
            /\ \A a, b \in DOMAIN o : a # b => o[a] # o[b]
            /\ \A a, b \in DOMAIN o :
                  a < b => DateTime(store[o[a]][W_created_at])
                              >= DateTime(store[o[b]][W_created_at])}}

\* the positions of the rows that delete().eq('id', problemId).eq('user_id', uid)
\* removes for the session of auth
Deleted(auth, problemId, uid) ==
    {i \in 1..Len(store) :
        /\ ids[i] = problemId
        /\ store[i][W_user_id] = uid
        /\ PolicyDelete(auth, store[i])}

\* the texts of the instants the browser's clock shows in the model
Instants == {D_now}

\* new Date().toISOString(): the text of the instant
toISOString(t) == CHOOSE d \in Instants : DateTime(d) = t

(* --------------------------- initial states ---------------------------- *)

NoStats == [totalSolved |-> 0, last7Days |-> 0, currentStreak |-> 0]

\* the state of the pages as they mount
InitPages(route) ==
    /\ page = route
    /\ statsPc = "idle"
    /\ stats = NoStats
    /\ loading = TRUE
    /\ analyticsPc = "idle"
    /\ problems = <<>>
    /\ charts \in Renders(<<>>, zone, now)

\* the quick-add form of the Dashboard as it mounts: four useState('')
EmptyQuickAdd == [title |-> <<>>, platform |-> <<>>, difficulty |-> <<>>, topic |-> <<>>]

\* useState({ title: '', ..., status: 'Todo', ..., notes: '' }) of NewProblemPage
EmptyForm ==
    [title |-> <<>>, platform |-> <<>>, difficulty |-> <<>>, topic |-> <<>>,
     status |-> Todo, problem_url |-> <<>>, solution_url |-> <<>>, notes |-> <<>>]

\* the forms and the list as they mount, no request made yet; the rows of the
\* table have distinct ids
InitForms ==
    /\ ids = [i \in 1..Len(store) |-> i]
    /\ addLoading = FALSE
    /\ addPc = "idle"
    /\ addForm = EmptyQuickAdd
    /\ formLoading = FALSE
    /\ formPc = "idle"
    /\ formData = EmptyForm
    /\ listLoading = TRUE
    /\ listPc = "idle"
    /\ problemList = <<>>
    /\ deletes = {}
    /\ requests = NoRequests
    /\ answer = NoAnswer

\* the page opened by a signed-in user whose table holds some rows, or by nobody
Init ==
    /\ InitCommon
    /\ disk = {}
    /\ \/ user = U1 /\ store \in Stores
       \/ user = NULL /\ store = <<>>
    /\ now = DateTime(D_now)
    /\ zone = UTC
    /\ InitPages("import-export")
    /\ InitForms

\* the page opened by a signed-in user with an empty table and one CSV file at hand
InitImport ==
    /\ InitCommon
    /\ user = U1
    /\ store = <<>>
    /\ \E f \in Files : disk = {f}
    /\ now = DateTime(D_now)
    /\ zone = UTC
    /\ InitPages("import-export")
    /\ InitForms

(* ------------------------------ handlers ------------------------------ *)

\* supabase.from('problems').select('*').eq('user_id', user.id)
SelectAll(uid) == SelectSeq(store, LAMBDA row : row[W_user_id] = uid)

\* handleExport up to its await: the button is disabled while isExporting
ExportStart ==
    /\ page = "import-export"
    /\ user # NULL
    /\ ~isExporting
    /\ exportPc = "idle"
    /\ isExporting' = TRUE
    /\ exportPc' = "select"
    /\ requests' = [requests EXCEPT !["handleExport"] = <<SelectRequest(user)>>]
    /\ UNCHANGED <<user, store, disk, csvContent, exportedData, isImporting,
                   importPc, file, parsed, toast>>
    /\ UNCHANGED <<pageVars, ids, formVars, listVars, answer>>

\* the select answers with the rows: the file is written and downloaded
ExportSelectOk ==
    /\ exportPc = "select"
    /\ csvContent' = ExportCsv(SelectAll(user))
    /\ exportedData' = SelectAll(user)
    /\ toast' = Toast("default", "Export successful", "", <<>>, Len(SelectAll(user)))
    /\ isExporting' = FALSE
    /\ exportPc' = "idle"
    /\ answer' = Answer("handleExport", FALSE)
    /\ UNCHANGED <<user, store, disk, isImporting, importPc, file, parsed>>
    /\ UNCHANGED <<pageVars, ids, formVars, listVars, requests>>

\* the select answers with an error
ExportSelectFail ==
    /\ exportPc = "select"
    /\ toast' = Toast("destructive", "Export failed", "store error", <<>>, 0)
    /\ isExporting' = FALSE
    /\ exportPc' = "idle"
    /\ answer' = Answer("handleExport", TRUE)
    /\ UNCHANGED <<user, store, disk, csvContent, exportedData, isImporting,
                   importPc, file, parsed>>
    /\ UNCHANGED <<pageVars, ids, formVars, listVars, requests>>

\* handleImport up to `await file.text()`, for a file of the disk or the download
ImportChoose ==
    /\ page = "import-export"
    /\ user # NULL
    /\ ~isImporting
    /\ importPc = "idle"
    /\ \E f \in disk \cup (IF csvContent = NoFile THEN {} ELSE {csvContent}) :
          file' = f
    /\ isImporting' = TRUE
    /\ importPc' = "reading"
    /\ parsed' = NoParse
    /\ requests' = [requests EXCEPT !["handleImport"] = <<>>]
    /\ UNCHANGED <<user, store, disk, isExporting, exportPc, csvContent,
                   exportedData, toast>>
    /\ UNCHANGED <<pageVars, ids, formVars, listVars, answer>>

ImportParseSendsBuilt ==
    /\ importPc = "reading"
    /\ parsed' = ParseImport(file, user)
    /\ IF parsed'.outcome = "ok"
       THEN /\ importPc' = "insert"
            /\ requests' = [requests EXCEPT !["handleImport"] =
                                Append(@, InsertRequest(parsed'.built))]
            /\ UNCHANGED <<isImporting, toast>>
       ELSE /\ importPc' = "idle"
            /\ isImporting' = FALSE
            /\ toast' = Toast("destructive", "Import failed", parsed'.message,
                              parsed'.names, 0)
            /\ UNCHANGED requests
    /\ UNCHANGED <<user, store, disk, isExporting, exportPc, csvContent,
                   exportedData, file>>
    /\ UNCHANGED <<pageVars, ids, formVars, listVars, answer>>

\* from the text of the file to the insert request, or to the catch block
ImportParse ==
    /\ importPc = "reading"
    /\ parsed' = ParseImport(file, user)
    /\ IF parsed'.outcome = "ok"
       THEN /\ importPc' = "insert"
            /\ requests' = [requests EXCEPT !["handleImport"] =
                                Append(@, InsertRequest(parsed'.problems))]
            /\ UNCHANGED <<isImporting, toast>>
       ELSE /\ importPc' = "idle"
            /\ isImporting' = FALSE
            /\ toast' = Toast("destructive", "Import failed", parsed'.message,
                              parsed'.names, 0)
            /\ UNCHANGED requests
    /\ UNCHANGED <<user, store, disk, isExporting, exportPc, csvContent,
                   exportedData, file>>
    /\ UNCHANGED <<pageVars, ids, formVars, listVars, answer>>

\* the insert succeeds
ImportInsertOk ==
    /\ importPc = "insert"
    /\ Len(store) + Len(parsed.problems) <= MaxStore
    /\ \A i \in 1..Len(parsed.problems) :
          /\ RowAccepted(InsertedRow(parsed.problems[i]))
          /\ PolicyInsert(user, InsertedRow(parsed.problems[i]))
    /\ store' = store \o [i \in 1..Len(parsed.problems) |-> InsertedRow(parsed.problems[i])]
    /\ ids' = ids \o FreshIds(Len(parsed.problems))
    /\ answer' = Answer("handleImport", FALSE)
    /\ toast' = Toast("default", "Import successful", "", <<>>, Len(parsed.problems))
    /\ isImporting' = FALSE
    /\ importPc' = "idle"
    /\ UNCHANGED <<user, disk, isExporting, exportPc, csvContent, exportedData,
                   file, parsed>>
    /\ UNCHANGED <<pageVars, formVars, listVars, requests>>

\* the insert answers with an error
ImportInsertFail ==
    /\ importPc = "insert"
    /\ toast' = Toast("destructive", "Import failed", "store error", <<>>, 0)
    /\ isImporting' = FALSE
    /\ importPc' = "idle"
    /\ answer' = Answer("handleImport", TRUE)
    /\ UNCHANGED <<user, store, disk, isExporting, exportPc, csvContent,
                   exportedData, file, parsed>>
    /\ UNCHANGED <<pageVars, ids, formVars, listVars, requests>>

Next ==
    \/ ExportStart
    \/ ExportSelectOk
    \/ ExportSelectFail
    \/ ImportChoose
    \/ ImportParse
    \/ ImportInsertOk
    \/ ImportInsertFail

Spec == Init /\ [][Next]_vars

(* --------------------- Dashboard and AnalyticsPage --------------------- *)

\* the Dashboard or the AnalyticsPage opened by a signed-in user, at some
\* instant in some time zone, over a table that holds some rows
InitStats ==
    /\ InitCommon
    /\ user = U1
    /\ disk = {}
    /\ store \in StatStores
    /\ now \in Nows
    /\ zone \in Zones
    /\ \E route \in {"dashboard", "analytics"} : InitPages(route)
    /\ InitForms

\* fetchStats up to its await (the effect of the Dashboard)
FetchStatsStart ==
    /\ page = "dashboard"
    /\ user # NULL
    /\ statsPc = "idle"
    /\ statsPc' = "select"
    /\ requests' = [requests EXCEPT !["fetchStats"] = <<SelectRequest(user)>>]
    /\ UNCHANGED <<ioVars, now, zone, page, stats, loading, analyticsPc, problems, charts>>
    /\ UNCHANGED <<ids, formVars, listVars, answer>>

\* the select answers with the rows: the three numbers are set
FetchStatsOk ==
    /\ statsPc = "select"
    /\ stats' = ComputeStats(SelectSolved(user), zone, now)
    /\ statsPc' = "idle"
    /\ answer' = Answer("fetchStats", FALSE)
    /\ UNCHANGED <<ioVars, now, zone, page, loading, analyticsPc, problems, charts>>
    /\ UNCHANGED <<ids, formVars, listVars, requests>>

\* the select answers with an error: console.error, the numbers stay
FetchStatsFail ==
    /\ statsPc = "select"
    /\ statsPc' = "idle"
    /\ answer' = Answer("fetchStats", TRUE)
    /\ UNCHANGED <<ioVars, now, zone, page, stats, loading, analyticsPc, problems, charts>>
    /\ UNCHANGED <<ids, formVars, listVars, requests>>

\* fetchProblems up to its await (the effect of the AnalyticsPage)
FetchProblemsStart ==
    /\ page = "analytics"
    /\ user # NULL
    /\ analyticsPc = "idle"
    /\ loading' = TRUE
    /\ analyticsPc' = "select"
    /\ requests' = [requests EXCEPT !["fetchAnalytics"] = <<SelectRequest(user)>>]
    /\ UNCHANGED <<ioVars, now, zone, page, statsPc, stats, problems, charts>>
    /\ UNCHANGED <<ids, formVars, listVars, answer>>

\* the select answers with the rows: setProblems, and the page renders
FetchProblemsOk ==
    /\ analyticsPc = "select"
    /\ problems' = SelectForAnalytics(user)
    /\ charts' \in Renders(problems', zone, now)
    /\ loading' = FALSE
    /\ analyticsPc' = "idle"
    /\ answer' = Answer("fetchAnalytics", FALSE)
    /\ UNCHANGED <<ioVars, now, zone, page, statsPc, stats>>
    /\ UNCHANGED <<ids, formVars, listVars, requests>>

\* the select answers with an error: console.error, `problems` stays
FetchProblemsFail ==
    /\ analyticsPc = "select"
    /\ loading' = FALSE
    /\ analyticsPc' = "idle"
    /\ answer' = Answer("fetchAnalytics", TRUE)
    /\ UNCHANGED <<ioVars, now, zone, page, statsPc, stats, problems, charts>>
    /\ UNCHANGED <<ids, formVars, listVars, requests>>

NextStats ==
    \/ FetchStatsStart
    \/ FetchStatsOk
    \/ FetchStatsFail
    \/ FetchProblemsStart
    \/ FetchProblemsOk
    \/ FetchProblemsFail

SpecStats == InitStats /\ [][NextStats]_vars

\* handleImport alone
NextImport ==
    \/ ImportChoose
    \/ ImportParse
    \/ ImportInsertOk
    \/ ImportInsertFail

SpecImport == InitImport /\ [][NextImport]_vars

(* ------------- quick add, NewProblemPage and ProblemsPage -------------- *)

\* what the user may have typed in the quick-add form
QuickAddInputs ==
    {[title |-> T_plain, platform |-> <<"a">>, difficulty |-> d, topic |-> t] :
        d \in {Easy, <<>>}, t \in {<<"b">>, <<>>}}

\* what the user may have typed and chosen in the form of NewProblemPage
FormInputs ==
    {[title |-> T_plain, platform |-> <<"a">>, difficulty |-> Medium, topic |-> <<"b">>,
      status |-> st, problem_url |-> <<>>, solution_url |-> <<>>, notes |-> n] :
        st \in {Todo, Solved}, n \in {<<>>, N_plain}}

\* the object handleQuickAdd hands to insert
QuickAddProblem(f, uid) ==
    [c \in Columns |->
        IF c = W_user_id THEN uid
        ELSE IF c = W_title THEN f.title
        ELSE IF c = W_platform THEN f.platform
        ELSE IF c = W_difficulty THEN f.difficulty
        ELSE IF c = W_topic THEN f.topic
        ELSE IF c = W_status THEN Todo
        ELSE UNDEFINED]

\* v || null
OrNull(v) == IF Truthy(v) THEN v ELSE NULL

\* problemData of handleSubmit, at the instant t
problemData(f, uid, t) ==
    [c \in Columns |->
        IF c = W_user_id THEN uid
        ELSE IF c = W_title THEN f.title
        ELSE IF c = W_platform THEN f.platform
        ELSE IF c = W_difficulty THEN f.difficulty
        ELSE IF c = W_topic THEN f.topic
        ELSE IF c = W_status THEN f.status
        ELSE IF c = W_problem_url THEN OrNull(f.problem_url)
        ELSE IF c = W_solution_url THEN OrNull(f.solution_url)
        ELSE IF c = W_notes THEN OrNull(f.notes)
        ELSE IF c = W_solved_at
        THEN (IF f.status = Solved THEN toISOString(t) ELSE NULL)
        ELSE UNDEFINED]

\* the only request a handler's latest run has made
Sent(h) == requests[h][1]

\* the store takes the rows of an insert request
Inserts(rows) ==
    /\ Len(store) + Len(rows) <= MaxStore
    /\ \A i \in 1..Len(rows) :
          /\ RowAccepted(InsertedRow(rows[i]))
          /\ PolicyInsert(user, InsertedRow(rows[i]))
    /\ store' = store \o [i \in 1..Len(rows) |-> InsertedRow(rows[i])]
    /\ ids' = ids \o FreshIds(Len(rows))

QuickAddStartNoFlag ==
    /\ page = "dashboard"
    /\ ~addLoading
    /\ \E f \in QuickAddInputs :
          /\ user # NULL /\ Truthy(f.title) /\ Truthy(f.platform)
          /\ Truthy(f.difficulty) /\ Truthy(f.topic)
          /\ addForm' = f
          /\ requests' = [requests EXCEPT !["handleQuickAdd"] =
                             <<InsertRequest(<<QuickAddProblem(f, user)>>)>>]
    /\ addPc' = "insert"
    /\ UNCHANGED <<ioVars, pageVars, ids, addLoading, formLoading, formPc, formData,
                   listVars, answer>>

\* handleQuickAdd up to its await, for a form filled some way; the submit button
\* is disabled while isLoading
QuickAddStart ==
    /\ page = "dashboard"
    /\ ~addLoading
    /\ \E f \in QuickAddInputs :
          /\ user # NULL /\ Truthy(f.title) /\ Truthy(f.platform)
          /\ Truthy(f.difficulty) /\ Truthy(f.topic)
          /\ addForm' = f
          /\ requests' = [requests EXCEPT !["handleQuickAdd"] =
                             <<InsertRequest(<<QuickAddProblem(f, user)>>)>>]
    /\ addLoading' = TRUE
    /\ addPc' = "insert"
    /\ UNCHANGED <<ioVars, pageVars, ids, formLoading, formPc, formData, listVars,
                   answer>>

\* the insert succeeds: toast, the form is emptied
QuickAddOk ==
    /\ addPc = "insert"
    /\ Inserts(Sent("handleQuickAdd").rows)
    /\ toast' = Toast("default", "Problem added successfully", "", <<>>, 0)
    /\ addForm' = EmptyQuickAdd
    /\ addLoading' = FALSE
    /\ addPc' = "idle"
    /\ answer' = Answer("handleQuickAdd", FALSE)
    /\ UNCHANGED <<user, disk, isExporting, exportPc, csvContent, exportedData,
                   isImporting, importPc, file, parsed>>
    /\ UNCHANGED <<pageVars, formLoading, formPc, formData, listVars, requests>>

\* the insert answers with an error
QuickAddFail ==
    /\ addPc = "insert"
    /\ toast' = Toast("destructive", "Error adding problem", "store error", <<>>, 0)
    /\ addLoading' = FALSE
    /\ addPc' = "idle"
    /\ answer' = Answer("handleQuickAdd", TRUE)
    /\ UNCHANGED <<user, store, disk, isExporting, exportPc, csvContent, exportedData,
                   isImporting, importPc, file, parsed>>
    /\ UNCHANGED <<pageVars, ids, addForm, formLoading, formPc, formData, listVars,
                   requests>>

\* handleSubmit up to its await, for a form filled some way; the submit button
\* is disabled while isLoading
SubmitStart ==
    /\ page = "problems/new"
    /\ ~formLoading
    /\ user # NULL
    /\ \E f \in FormInputs :
          /\ formData' = f
          /\ requests' = [requests EXCEPT !["handleSubmit"] =
                             <<InsertRequest(<<problemData(f, user, now)>>)>>]
    /\ formLoading' = TRUE
    /\ formPc' = "insert"
    /\ UNCHANGED <<ioVars, pageVars, ids, addLoading, addPc, addForm, listVars, answer>>

\* the insert succeeds: toast, navigate('/problems'), and ProblemsPage mounts
SubmitOk ==
    /\ formPc = "insert"
    /\ Inserts(Sent("handleSubmit").rows)
    /\ toast' = Toast("default", "Problem added successfully", "", <<>>, 0)
    /\ page' = "problems"
    /\ listLoading' = TRUE
    /\ listPc' = "idle"
    /\ problemList' = <<>>
    /\ deletes' = {}
    /\ formData' = EmptyForm
    /\ formLoading' = FALSE
    /\ formPc' = "idle"
    /\ answer' = Answer("handleSubmit", FALSE)
    /\ UNCHANGED <<user, disk, isExporting, exportPc, csvContent, exportedData,
                   isImporting, importPc, file, parsed>>
    /\ UNCHANGED <<now, zone, statsPc, stats, loading, analyticsPc, problems, charts>>
    /\ UNCHANGED <<addLoading, addPc, addForm, requests>>

\* the insert answers with an error
SubmitFail ==
    /\ formPc = "insert"
    /\ toast' = Toast("destructive", "Error adding problem", "store error", <<>>, 0)
    /\ formLoading' = FALSE
    /\ formPc' = "idle"
    /\ answer' = Answer("handleSubmit", TRUE)
    /\ UNCHANGED <<user, store, disk, isExporting, exportPc, csvContent, exportedData,
                   isImporting, importPc, file, parsed>>
    /\ UNCHANGED <<pageVars, ids, addLoading, addPc, addForm, formData, listVars,
                   requests>>

\* fetchProblems of ProblemsPage up to its await (the effect of the page as it
\* mounts)
ListFetchStart ==
    /\ page = "problems"
    /\ user # NULL
    /\ listLoading
    /\ listPc = "idle"
    /\ listPc' = "select"
    /\ requests' = [requests EXCEPT !["fetchProblems"] = <<SelectRequest(user)>>]
    /\ UNCHANGED <<ioVars, pageVars, ids, formVars, listLoading, problemList, deletes,
                   answer>>

\* the select answers with the rows
ListFetchOk ==
    /\ listPc = "select"
    /\ problemList' \in SelectOrdered(user, Sent("fetchProblems").user_id)
    /\ listLoading' = FALSE
    /\ listPc' = "idle"
    /\ answer' = Answer("fetchProblems", FALSE)
    /\ UNCHANGED <<ioVars, pageVars, ids, formVars, deletes, requests>>

\* the select answers with an error
ListFetchFail ==
    /\ listPc = "select"
    /\ toast' = Toast("destructive", "Error loading problems", "store error", <<>>, 0)
    /\ listLoading' = FALSE
    /\ listPc' = "idle"
    /\ answer' = Answer("fetchProblems", TRUE)
    /\ UNCHANGED <<user, store, disk, isExporting, exportPc, csvContent, exportedData,
                   isImporting, importPc, file, parsed>>
    /\ UNCHANGED <<pageVars, ids, formVars, problemList, deletes, requests>>

\* a call of handleDelete awaiting its answer: the id it was given, and the
\* `problems` of the render whose handleDelete was called
DeleteCall(problemId, closure) == [id |-> problemId, problems |-> closure]

\* handleDelete up to its await, from the button of a row of the list shown
DeleteStart ==
    /\ page = "problems"
    /\ user # NULL
    /\ \E k \in 1..Len(problemList) :
          /\ DeleteCall(problemList[k].id, problemList) \notin deletes
          /\ deletes' = deletes \cup {DeleteCall(problemList[k].id, problemList)}
          /\ requests' = [requests EXCEPT !["handleDelete"] =
                             <<DeleteRequest(problemList[k].id, user)>>]
    /\ UNCHANGED <<ioVars, pageVars, ids, formVars, listLoading, listPc, problemList,
                   answer>>

\* setProblems(problems.filter(p => p.id !== problemId)) with the `problems` of
\* the call
FilteredOut(call) == SelectSeq(call.problems, LAMBDA p : p.id # call.id)

\* the delete of one call succeeds: the row leaves the table, setProblems, toast
DeleteOk ==
    /\ \E call \in deletes :
          /\ store' = Pick(store, {i \in 1..Len(store) :
                                      i \notin Deleted(user, call.id, user)})
          /\ ids' = Pick(ids, {i \in 1..Len(store) :
                                  i \notin Deleted(user, call.id, user)})
          /\ problemList' = FilteredOut(call)
          /\ deletes' = deletes \ {call}
    /\ toast' = Toast("default", "Problem deleted", "", <<>>, 0)
    /\ answer' = Answer("handleDelete", FALSE)
    /\ UNCHANGED <<user, disk, isExporting, exportPc, csvContent, exportedData,
                   isImporting, importPc, file, parsed>>
    /\ UNCHANGED <<pageVars, formVars, listLoading, listPc, requests>>

\* the delete of one call answers with an error
DeleteFail ==
    /\ \E call \in deletes : deletes' = deletes \ {call}
    /\ toast' = Toast("destructive", "Error deleting problem", "store error", <<>>, 0)
    /\ answer' = Answer("handleDelete", TRUE)
    /\ UNCHANGED <<user, store, disk, isExporting, exportPc, csvContent, exportedData,
                   isImporting, importPc, file, parsed>>
    /\ UNCHANGED <<pageVars, ids, formVars, listLoading, listPc, problemList, requests>>

(* ------------------------- the whole application ----------------------- *)

\* another user of the application
U2 == <<"u", "2">>

\* the routes behind ProtectedRoute
Routes == {"dashboard", "problems", "problems/new", "analytics", "import-export"}

OtherRow == [Row(T_plain, Todo, NULL, NULL) EXCEPT ![W_user_id] = U2]

\* tables holding rows of the user and of another user
AppStores ==
    {<<>>,
     <<OtherRow>>,
     <<Row(T_plain, Todo, NULL, NULL), OtherRow, Row(T_comma, Solved, N_plain, D_solved)>>}

R_solvedNoDate == <<"a", "b", ",", "a", ",", "H", "a", "r", "d", ",", "b", ",", "S", "o", "l", "v", "e", "d", ",", "u", ",">>
R_todoDated == <<"a", "b", ",", "a", ",", "H", "a", "r", "d", ",", "b", ",", "T", "o", "d", "o", ",", "u", ",", "2", "0", "2", "5", "-", "0", "8", "-", "1", "7">>

\* the CSV files at hand: one with a Solved row without solved_at, one with a
\* Todo row with solved_at, one without data lines
AppFiles ==
    {Join(<<H_optional, R_solvedNoDate>>, NL),
     Join(<<H_optional, R_todoDated>>, NL),
     H_optional}

\* any page of the application opened by a signed-in user or by nobody
InitApp ==
    /\ InitCommon
    /\ user \in {U1, NULL}
    /\ store \in AppStores
    /\ disk = AppFiles
    /\ now = DateTime(D_now)
    /\ zone = UTC
    /\ \E route \in Routes : InitPages(route)
    /\ InitForms

NextApp ==
    \/ ExportStart
    \/ ExportSelectOk
    \/ ExportSelectFail
    \/ ImportChoose
    \/ ImportParse
    \/ ImportInsertOk
    \/ ImportInsertFail
    \/ FetchStatsStart
    \/ FetchStatsOk
    \/ FetchStatsFail
    \/ FetchProblemsStart
    \/ FetchProblemsOk
    \/ FetchProblemsFail
    \/ QuickAddStart
    \/ QuickAddOk
    \/ QuickAddFail
    \/ SubmitStart
    \/ SubmitOk
    \/ SubmitFail
    \/ ListFetchStart
    \/ ListFetchOk
    \/ ListFetchFail
    \/ DeleteStart
    \/ DeleteOk
    \/ DeleteFail

SpecApp == InitApp /\ [][NextApp]_vars

(* ------------------- reference definitions for the claims -------------- *)

\* the header row of the export, as text
HeaderText == <<"t", "i", "t", "l", "e", ",", "p", "l", "a", "t", "f", "o", "r", "m", ",", "d", "i", "f", "f", "i", "c", "u", "l", "t", "y", ",", "t", "o", "p", "i", "c", ",", "s", "t", "a", "t", "u", "s", ",", "p", "r", "o", "b", "l", "e", "m", "_", "u", "r", "l", ",", "s", "o", "l", "u", "t", "i", "o", "n", "_", "u", "r", "l", ",", "n", "o", "t", "e", "s", ",", "s", "o", "l", "v", "e", "d", "_", "a", "t", ",", "c", "r", "e", "a", "t", "e", "d", "_", "a", "t">>

\* the fields of a record that the round trip is about
RoundTripFields == {W_title, W_platform, W_difficulty, W_topic, W_status,
                    W_problem_url, W_solution_url, W_notes, W_solved_at}

HasAny(v, chars) == \E i \in 1..Len(v) : v[i] \in chars

\* no text field of the record holds a comma, a double quote or a newline
NoSpecialChars(r) ==
    \A c \in RoundTripFields \cup {W_created_at} :
        r[c] = NULL \/ ~HasAny(r[c], {COMMA, QUOTE, NL})

NoNewline(r) ==
    \A c \in RoundTripFields \cup {W_created_at} : r[c] = NULL \/ ~HasAny(r[c], {NL})

\* no text field of the record starts or ends with white space
NoOuterSpace(r) ==
    \A c \in RoundTripFields \cup {W_created_at} :
        r[c] = NULL \/ r[c] = <<>> \/ (~IsSpace(r[c][1]) /\ ~IsSpace(r[c][Len(r[c])]))

\* an optional field that is absent is null, not the empty text
NoEmptyOptional(r) ==
    \A c \in {W_problem_url, W_solution_url, W_notes, W_solved_at} : r[c] # <<>>

RequiredNonEmpty(r) ==
    \A c \in {W_title, W_platform, W_difficulty, W_topic} :
        r[c] \notin {<<>>, NULL, UNDEFINED}

\* the required fields hold something besides white space
RequiredNonBlank(r) ==
    \A c \in {W_title, W_platform, W_difficulty, W_topic} :
        r[c] \notin {NULL, UNDEFINED} /\ \E i \in 1..Len(r[c]) : ~IsSpace(r[c][i])

SameFields(p, r) == \A c \in RoundTripFields : p[c] = r[c]

\* equal up to the white space around a value, an all-blank optional value
\* counting as none
EquivalentFields(p, r) ==
    \A c \in RoundTripFields :
        p[c] = (IF r[c] = NULL \/ Trim(r[c]) = <<>> THEN NULL ELSE Trim(r[c]))

\* the parse of `file` is over
ParseDone == parsed.outcome # "none"

\* the file parsed is the text exported from exportedData
ReImport == ParseDone /\ csvContent # NoFile /\ file = csvContent

\* the number of lines of the text that hold a character other than white space
NonBlankCount(text) ==
    Cardinality({a \in 0..Len(text) :
        /\ (a = 0 \/ text[a] = NL)
        /\ \E j \in (a + 1)..Len(text) :
              /\ ~IsSpace(text[j])
              /\ \A m \in (a + 1)..j : text[m] # NL})

\* the required headers that the header line of the text does not name
AbsentRequired(text) ==
    LET named == {ParseHeaders(Lines(text)[1])[i] :
                     i \in 1..Len(ParseHeaders(Lines(text)[1]))}
    IN  SelectSeq(<<W_title, W_platform, W_difficulty, W_topic>>,
                  LAMBDA h : h \notin named)

HeaderPassed(text) == NonBlankCount(text) >= 2 /\ AbsentRequired(text) = <<>>

\* the trimmed cell of a data line under the last header named h, empty when
\* the line is too short
CellUnder(headers, values, h) ==
    LET at == {i \in 1..Len(headers) : headers[i] = h}
        last == CHOOSE i \in at : \A j \in at : j <= i
    IN  IF at = {} \/ last > Len(values) THEN <<>> ELSE Trim(values[last])

\* the data lines of the text with a title, a platform and a topic (the
\* difficulty of a record is never empty: an empty cell becomes Easy)
ValidRows(text) ==
    {i \in 2..Len(Lines(text)) :
        \A h \in {W_title, W_platform, W_topic} :
            CellUnder(ParseHeaders(Lines(text)[1]), parseCSVLine(Lines(text)[i]), h)
                # <<>>}

\* RFC 4180 reading of a text written by a correct writer: a character lies
\* inside a quoted field when an odd number of quotes precedes it
QuotesBefore(text, j) == Cardinality({i \in 1..(j - 1) : text[i] = QUOTE})
Outside(text, j) == QuotesBefore(text, j) % 2 = 0

\* s with the characters at the positions of `keep` only
KeepAt(s, keep) ==
    [k \in 1..Cardinality(keep) |->
        s[CHOOSE i \in keep : Cardinality({j \in keep : j < i}) = k - 1]]

\* the value of a field: an enclosed field loses its enclosing quotes and the
\* first quote of every doubled pair
RefUnquote(f) ==
    IF Len(f) >= 2 /\ f[1] = QUOTE /\ f[Len(f)] = QUOTE
    THEN LET inner == SubSeq(f, 2, Len(f) - 1)
         IN  KeepAt(inner, {j \in 1..Len(inner) :
                               inner[j] # QUOTE \/ QuotesBefore(inner, j + 1) % 2 = 0})
    ELSE f

RefFields(row) ==
    LET raw == SplitAt(row, {j \in 1..Len(row) : row[j] = COMMA /\ Outside(row, j)})
    IN  [k \in 1..Len(raw) |-> RefUnquote(raw[k])]

RefRows(text) ==
    LET raw == SplitAt(text, {j \in 1..Len(text) : text[j] = NL /\ Outside(text, j)})
    IN  [k \in 1..Len(raw) |-> RefFields(raw[k])]

\* the text of a value of the table: nothing for null
RefText(v) == IF v = NULL \/ v = UNDEFINED THEN <<>> ELSE v

\* s with every double quote written twice
RECURSIVE RefDoubled(_)
RefDoubled(s) ==
    IF s = <<>> THEN <<>>
    ELSE RefDoubled(SubSeq(s, 1, Len(s) - 1))
         \o (IF s[Len(s)] = QUOTE THEN <<QUOTE, QUOTE>> ELSE <<s[Len(s)]>>)

\* the field-escaping rule
RuleCell(v) ==
    IF v = NULL \/ v = UNDEFINED THEN <<>>
    ELSE IF HasAny(v, {COMMA, QUOTE, NL}) THEN <<QUOTE>> \o RefDoubled(v) \o <<QUOTE>>
    ELSE v

(* ------------------------------- claims -------------------------------- *)

C2_EscapingRoundTrip ==
    csvContent # NoFile =>
        \A i \in 1..Len(exportedData) : \A k \in 1..Len(exportHeaders) :
            LET r == exportedData[i]
                v == r[exportHeaders[k]]
            IN  (v # NULL /\ HasAny(v, {COMMA, QUOTE})) =>
                    /\ parseCSVLine(SerializeField(v)) = <<v>>
                    /\ parseCSVLine(ExportRow(r))[k] = v
                    /\ Len(parseCSVLine(ExportRow(r))) = Len(exportHeaders)

C2_Witness ==
    /\ csvContent # NoFile
    /\ \E i \in 1..Len(exportedData) :
          /\ exportedData[i][W_title] = T_example
          /\ parseCSVLine(ExportRow(exportedData[i]))[1] = T_example

\* C3 as stated: for a non-empty sequence of records with non-empty required
\* fields, also when a value holds a newline, importing the export gives one
\* record per exported record, in order, with equivalent field values
C3_MultiRecordRoundTrip ==
    (/\ ReImport
     /\ Len(exportedData) >= 1
     /\ \A i \in 1..Len(exportedData) : RequiredNonBlank(exportedData[i]))
    => /\ parsed.outcome = "ok"
       /\ Len(parsed.problems) = Len(exportedData)
       /\ \A i \in 1..Len(exportedData) :
             EquivalentFields(parsed.problems[i], exportedData[i])

\* C4: the export is the header row followed by one row per record, in order,
\* each holding the record's ten fields in the header's column order
C4_ExportLayout ==
    csvContent # NoFile =>
        /\ Len(csvContent) >= Len(HeaderText)
        /\ SubSeq(csvContent, 1, Len(HeaderText)) = HeaderText
        /\ RefRows(csvContent) =
              <<[k \in 1..10 |-> exportHeaders[k]]>>
              \o [i \in 1..Len(exportedData) |->
                    [k \in 1..10 |-> RefText(exportedData[i][exportHeaders[k]])]]

C4_Witness ==
    /\ csvContent # NoFile
    /\ Len(exportedData) = 2
    /\ exportedData[1] # exportedData[2]
    /\ \E i \in 1..2 : ~NoNewline(exportedData[i])

\* C5: every cell of the export is empty for null, the value in double quotes
\* with its quotes doubled when the value holds a comma, a double quote or a
\* newline, and the value unchanged otherwise
C5_FieldSerialization ==
    csvContent # NoFile =>
        csvContent =
            Join(<<HeaderText>>
                 \o [i \in 1..Len(exportedData) |->
                       Join([k \in 1..10 |-> RuleCell(exportedData[i][exportHeaders[k]])],
                            COMMA)],
                 NL)

C5_Witness ==
    /\ csvContent # NoFile
    /\ \E i \in 1..Len(exportedData) :
          /\ exportedData[i][W_notes] = N_multiline
          /\ exportedData[i][W_problem_url] = NULL
    /\ \E i \in 1..Len(exportedData) : exportedData[i][W_title] = T_quote

\* C6: the parse fails with MalformedInput exactly when fewer than two lines
\* hold something besides white space, and blank lines are never data rows
C6_MalformedInput ==
    ParseDone =>
        /\ (parsed.outcome = "MalformedInput") <=> (NonBlankCount(file) < 2)
        /\ parsed.outcome = "MalformedInput" => parsed.message = MsgMalformed
        /\ parsed.outcome \in {"ok", "NoValidRows"} =>
              Len(parsed.built) = NonBlankCount(file) - 1

C6_Witness ==
    /\ ParseDone
    /\ parsed.outcome = "MalformedInput"
    /\ file = Join(<<H_required, R_spaces, R_empty>>, NL)

\* C7: the parse fails with MissingColumns exactly when the header line was
\* reached and does not name all of title, platform, difficulty, topic, and the
\* error names the absent ones
C7_MissingColumns ==
    ParseDone =>
        /\ (parsed.outcome = "MissingColumns") <=>
              (NonBlankCount(file) >= 2 /\ AbsentRequired(file) # <<>>)
        /\ parsed.outcome = "MissingColumns" =>
              /\ parsed.message = MsgMissing
              /\ parsed.names = AbsentRequired(file)

C7_Witness ==
    /\ ParseDone
    /\ file = Join(<<H_missing, R_short>>, NL)
    /\ parsed.outcome = "MissingColumns"
    /\ parsed.names = <<W_difficulty, W_topic>>
    /\ toast.names = <<W_difficulty, W_topic>>

C9_NoValidRows ==
    ParseDone =>
        /\ (parsed.outcome = "NoValidRows") <=>
              (HeaderPassed(file) /\ ValidRows(file) = {})
        /\ (HeaderPassed(file) /\ ValidRows(file) # {}) =>
              (parsed.outcome = "ok" /\ Len(parsed.problems) = Cardinality(ValidRows(file)))

C9_Witness ==
    /\ ParseDone
    /\ parsed.outcome = "NoValidRows"
    /\ parsed.skipped = 2
    /\ toast.message = MsgNoValid

\* C10: the parse ends in MalformedInput, MissingColumns, NoValidRows or
\* success, decided in this order, whatever else the text holds
C10_FourOutcomes ==
    ParseDone =>
        parsed.outcome =
            IF NonBlankCount(file) < 2 THEN "MalformedInput"
            ELSE IF AbsentRequired(file) # <<>> THEN "MissingColumns"
            ELSE IF ValidRows(file) = {} THEN "NoValidRows"
            ELSE "ok"

C10_Witness ==
    /\ ParseDone
    /\ file = Join(<<H_optional, R_unknown, R_unbalanced>>, NL)
    /\ parsed.outcome = "ok"
    /\ Len(parsed.problems) = 2

\* the untrimmed cell of a data line under the last header named h, empty when
\* the line is too short
RawCellUnder(headers, values, h) ==
    LET at == {i \in 1..Len(headers) : headers[i] = h}
        last == CHOOSE i \in at : \A j \in at : j <= i
    IN  IF at = {} \/ last > Len(values) THEN <<>> ELSE values[last]

\* the header names of the file parsed, and the cells of its i-th data line
FileHeaders == ParseHeaders(Lines(file)[1])
FileCells(i) == parseCSVLine(Lines(file)[i + 1])

\* every data line was turned into a record (kept or left out)
RowsBuilt == ParseDone /\ parsed.outcome \in {"ok", "NoValidRows"}

Named(h) == \E i \in 1..Len(FileHeaders) : FileHeaders[i] = h

SolvedRecords ==
    {i \in 1..Len(store) : /\ store[i][W_user_id] = user
                           /\ store[i][W_status] = Solved
                           /\ store[i][W_solved_at] # NULL}

\* the calendar day of an instant on the browser's clock
DayOf(t) == (t + (IF t >= zone.switchAt THEN zone.dst ELSE zone.std)) \div 24

\* D: the distinct calendar days on which a record was solved
SolvedDays == {DayOf(DateTime(store[i][W_solved_at])) : i \in SolvedRecords}

Today == DayOf(now)

\* the number of days of the unbroken run of days of D that ends with day d
RunEnding(D, d) ==
    Cardinality({k \in 1..Cardinality(D) : \A j \in 0..(k - 1) : (d - j) \in D})

\* the stated algorithm: nothing for an empty D or a latest day before
\* yesterday, else the run of consecutive days that ends with the latest day
StatedStreak(D) ==
    LET latest == CHOOSE d \in D : \A e \in D : e <= d
    IN  IF D = {} THEN 0
        ELSE IF latest # Today /\ latest # Today - 1 THEN 0
        ELSE RunEnding(D, latest)

\* C14 as stated: the streak that fetchStats sets is the stated algorithm's
\* result over D, the distinct calendar days of the solved records: 0 for an
\* empty D, 0 when the latest day is neither today nor yesterday, else the number
\* of leading days of D each one day before the previous
C14_StreakAlgorithm ==
    [][FetchStatsOk => stats'.currentStreak = StatedStreak(SolvedDays)]_vars

\* C15 as stated: for every table, also with solved dates after today, the
\* streak that fetchStats sets is the length of the run of consecutive days with
\* a solved record that ends today or, when today has none, yesterday
C15_StreakDefinition ==
    [][FetchStatsOk =>
          stats'.currentStreak =
              (IF Today \in SolvedDays THEN RunEnding(SolvedDays, Today)
               ELSE RunEnding(SolvedDays, Today - 1))]_vars

\* C16 as stated: the last-7-days count that fetchStats sets is the number of
\* solved records whose solved_at lies from seven days before now up to now
C16_LastSevenDays ==
    [][FetchStatsOk =>
          stats'.last7Days =
              Cardinality({i \in SolvedRecords :
                              /\ DateTime(store[i][W_solved_at]) >= now - 7 * 24
                              /\ DateTime(store[i][W_solved_at]) <= now})]_vars

\* the records the AnalyticsPage holds, as positions of `problems`
Records == 1..Len(problems)

\* the records of a difficulty, of a topic
OfDifficulty(d) == {i \in Records : problems[i][W_difficulty] = d}
OfTopic(t) == {i \in Records : problems[i][W_topic] = t}

\* C17 as stated: total is the number of records, solved the number of records
\* with status Solved, and solveRate is 100 * solved / total rounded to the
\* nearest integer (a half going up), 0 for no record, and within 0..100
C17_SolveRate ==
    LET total == Cardinality(Records)
        solved == Cardinality({i \in Records : problems[i][W_status] = Solved})
    IN  /\ charts.totalProblems = total
        /\ charts.solvedProblems = solved
        /\ charts.solveRate \in 0..100
        /\ total = 0 => charts.solveRate = 0
        /\ total > 0 =>
              /\ 2 * (100 * solved - charts.solveRate * total) < total
              /\ 2 * (100 * solved - charts.solveRate * total) >= 0 - total

\* C18: the difficulty breakdown lists, in the order Easy, Medium, Hard, exactly
\* the difficulties that some record has, each with the number of its records,
\* so no entry counts 0, and the counts add up to the number of records when
\* every record's difficulty is one of the three
C18_DifficultyBreakdown ==
    LET present == SelectSeq(<<Easy, Medium, Hard>>, LAMBDA d : OfDifficulty(d) # {})
        data == charts.difficultyData
    IN  /\ Len(data) = Len(present)
        /\ \A k \in 1..Len(data) :
              /\ data[k].name = present[k]
              /\ data[k].value = Cardinality(OfDifficulty(present[k]))
              /\ data[k].value > 0
        /\ (\A i \in Records : problems[i][W_difficulty] \in {Easy, Medium, Hard}) =>
              Cardinality({<<k, n>> \in (1..Len(data)) \X (1..Len(problems)) :
                              n <= data[k].value}) = Len(problems)

C18_Witness ==
    /\ Len(problems) = 2
    /\ \A i \in Records : problems[i][W_difficulty] = Easy
    /\ Len(charts.difficultyData) = 1
    /\ charts.difficultyData[1].name = Easy
    /\ charts.difficultyData[1].value = 2

\* C19 as stated: the topic breakdown holds one entry per distinct topic, with
\* the number of the topic's records, in the order of non-increasing counts, cut
\* to at most 8 entries, and no topic left out has more records than one kept
C19_TopicBreakdown ==
    LET data == charts.topicData
        topics == {problems[i][W_topic] : i \in Records}
        kept == {data[k].topic : k \in 1..Len(data)}
    IN  /\ Len(data) = (IF Cardinality(topics) < 8 THEN Cardinality(topics) ELSE 8)
        /\ kept \subseteq topics
        /\ Cardinality(kept) = Len(data)
        /\ \A k \in 1..Len(data) :
              /\ data[k].count.type = "number"
              /\ data[k].count.number = Cardinality(OfTopic(data[k].topic))
        /\ \A k \in 1..(Len(data) - 1) :
              Cardinality(OfTopic(data[k].topic)) >= Cardinality(OfTopic(data[k + 1].topic))
        /\ \A out \in topics \ kept : \A in \in kept :
              Cardinality(OfTopic(out)) <= Cardinality(OfTopic(in))

\* the records with a solved_at on the day that lies `back` days before today
SolvedOnDay(back) ==
    {i \in Records : /\ problems[i][W_solved_at] # NULL
                     /\ DayOf(DateTime(problems[i][W_solved_at])) = Today - back}

CreationPaths == {"handleQuickAdd", "handleSubmit", "handleImport"}

\* the records sent to the store by the latest run of handler h, with the
\* columns left out filled in by the table
SentRecords(h) ==
    UNION {{InsertedRow(requests[h][k].rows[i]) : i \in 1..Len(requests[h][k].rows)} :
              k \in {n \in 1..Len(requests[h]) : requests[h][n].op = "insert"}}

SolvedAtIffSolved(r) == (r[W_solved_at] # NULL) <=> (r[W_status] = Solved)

\* C21: every record that quick add, the new-problem form or the CSV import
\* sends to the store has a non-null solved_at if and only if its status is
\* Solved
C21_SolvedAtIffSolved ==
    \A h \in CreationPaths : \A r \in SentRecords(h) : SolvedAtIffSolved(r)

\* the records of the data lines of the text that are not skipped, in the order
\* of the lines
NonSkipped(text, uid) ==
    LET lines == Lines(text)
        valid == ValidRows(text)
    IN  [k \in 1..Cardinality(valid) |->
            BuildProblem(ParseHeaders(lines[1]),
                         parseCSVLine(lines[CHOOSE i \in valid :
                                                Cardinality({j \in valid : j < i}) = k - 1]),
                         uid)]

\* the import of `file` has ended in one of the three failures
ImportFailed ==
    parsed.outcome \in {"MalformedInput", "MissingColumns", "NoValidRows"}

\* the store requests a run of handleImport may have made: none until the parse
\* has succeeded, then the one insert of the records that were not skipped
ImportRequestsInOrder ==
    /\ (importPc = "reading" \/ ImportFailed) => requests["handleImport"] = <<>>
    /\ parsed.outcome = "ok" =>
          /\ HeaderPassed(file) /\ ValidRows(file) # {}
          /\ requests["handleImport"] = <<InsertRequest(NonSkipped(file, user))>>

\* C22: an import persists nothing unless parsing succeeds: after MalformedInput,
\* MissingColumns or NoValidRows no insert has been made, on success insert is
\* made exactly once, after all rows are parsed, with exactly the records that
\* were not skipped, and the table changes only by the rows of that insert
C22_InsertOnlyAfterParse ==
    /\ []ImportRequestsInOrder
    /\ [][store' # store =>
             /\ importPc = "insert" /\ parsed.outcome = "ok"
             /\ store' = store \o [i \in 1..Len(NonSkipped(file, user)) |->
                                      InsertedRow(NonSkipped(file, user)[i])]]_vars

\* an import that skipped a row has inserted the other one
C22_Witness ==
    /\ importPc = "idle"
    /\ parsed.outcome = "ok"
    /\ parsed.skipped = 1
    /\ Len(requests["handleImport"]) = 1
    /\ Len(requests["handleImport"][1].rows) = 1
    /\ Len(store) = 1
    /\ answer = Answer("handleImport", FALSE)

\* every in-progress flag is true exactly while its handler awaits or works
FlagsFollowRequests ==
    /\ addLoading <=> addPc # "idle"
    /\ formLoading <=> formPc # "idle"
    /\ isImporting <=> importPc # "idle"
    /\ isExporting <=> exportPc # "idle"

Outstanding(h) ==
    IF h = "handleDelete" THEN Cardinality(deletes)
    ELSE LET pc == [fetchStats |-> statsPc, handleQuickAdd |-> addPc,
                    handleSubmit |-> formPc, handleExport |-> exportPc,
                    handleImport |-> importPc, fetchAnalytics |-> analyticsPc,
                    fetchProblems |-> listPc][h]
         IN  IF pc \in {"select", "insert"} THEN 1 ELSE 0

\* the store answers a request of handler h with an error
FailureReturned(h) ==
    /\ Outstanding(h)' < Outstanding(h)
    /\ answer'.to = h
    /\ answer'.error

\* C24: every failure returned by the store to a page handler (stats fetch,
\* analytics fetch, problem list fetch, insert, delete, import, export) results
\* in a user-visible error notification
C24_FailuresNotified ==
    [][\A h \in Handlers : FailureReturned(h) => toast'.variant = "destructive"]_vars

\* who may send a request: a signed-in user, or nobody
Sessions == {U1, U2, NULL}

\* the rows in the table, and those the pages have asked to insert
KnownRows ==
    {store[i] : i \in 1..Len(store)}
    \cup UNION {SentRecords(h) : h \in CreationPaths}

\* every request of the pages is scoped to the signed-in user
RequestsScoped ==
    \A h \in Handlers : \A k \in 1..Len(requests[h]) :
        /\ user # NULL
        /\ requests[h][k].op = "insert" =>
              \A i \in 1..Len(requests[h][k].rows) :
                  requests[h][k].rows[i][W_user_id] = user
        /\ requests[h][k].op \in {"select", "delete"} => requests[h][k].user_id = user

\* the policies allow each operation on a row to its owner and to nobody else
PoliciesOwnerOnly ==
    \A auth \in Sessions : \A row \in KnownRows :
        /\ PolicySelect(auth, row) <=> auth = row[W_user_id]
        /\ PolicyInsert(auth, row) <=> auth = row[W_user_id]
        /\ PolicyDelete(auth, row) <=> auth = row[W_user_id]
        /\ \A new \in KnownRows :
              PolicyUpdate(auth, row, new) <=>
                  (auth = row[W_user_id] /\ auth = new[W_user_id])

\* what the pages hold of the table are rows of the signed-in user
OwnRowsOnly ==
    /\ \A k \in 1..Len(problemList) : problemList[k].fields[W_user_id] = user
    /\ \A k \in 1..Len(exportedData) : exportedData[k][W_user_id] = user

\* the rows of the table that the signed-in user does not own
RowsOfOthers == SelectSeq(store, LAMBDA row : row[W_user_id] # user)

\* C25: every record inserted by quick add, the form or import carries the
\* signed-in user's id, every select and delete of the pages is restricted to
\* that id, no handler makes a request when nobody is signed in, and the
\* policies of the table allow select, insert, update and delete on a problem
\* only to its owner
C25_OwnerScoping ==
    /\ [](RequestsScoped /\ PoliciesOwnerOnly /\ OwnRowsOnly)
    /\ [][RowsOfOthers' = RowsOfOthers]_vars

\* a delete of the user has been carried out on a table that holds a row of
\* another user
C25_Witness ==
    /\ user = U1
    /\ answer = Answer("handleDelete", FALSE)
    /\ Len(requests["handleDelete"]) = 1
    /\ Len(store) = 2
    /\ Len(RowsOfOthers) = 1

\* the lines of the file that handleImport has been given and is about to parse
FileLines == IF importPc = "reading" THEN Split(file, NL) ELSE <<>>

\* the commas of the line that lie outside quotes: an even number of quotes
\* precedes them
OuterCommas(line) == {j \in 1..Len(line) : line[j] = COMMA /\ Outside(line, j)}

\* the quotes of the line that are the second of a doubled quote inside a
\* quoted field: a quote follows a quote, and the pair leaves the field quoted
LiteralQuotes(line) ==
    {j \in 2..Len(line) :
        line[j] = QUOTE /\ line[j - 1] = QUOTE /\ QuotesBefore(line, j) % 2 = 0}

\* the fields of the line by the rules: the pieces between the commas outside
\* quotes, without their quotes except one for every doubled quote
RuleFields(line) ==
    LET ends == [k \in 0..(Cardinality(OuterCommas(line)) + 1) |->
                    IF k = 0 THEN 0
                    ELSE IF k > Cardinality(OuterCommas(line)) THEN Len(line) + 1
                    ELSE CHOOSE i \in OuterCommas(line) :
                             Cardinality({j \in OuterCommas(line) : j < i}) = k - 1]
    IN  [k \in 1..(Cardinality(OuterCommas(line)) + 1) |->
            KeepAt(line, {j \in (ends[k - 1] + 1)..(ends[k] - 1) :
                             line[j] # QUOTE \/ j \in LiteralQuotes(line)})]

\* C26: the line splitter of the import returns, for every line, the fields
\* given by the rules (a comma outside quotes ends a field, a comma inside
\* quotes is literal, a doubled quote inside a quoted field gives one quote, any
\* other quote toggles and is dropped), and always as many fields as the line
\* has commas outside quotes, plus one
C26_LineSplitter ==
    \A n \in 1..Len(FileLines) :
        /\ parseCSVLine(FileLines[n]) = RuleFields(FileLines[n])
        /\ Len(parseCSVLine(FileLines[n])) = Cardinality(OuterCommas(FileLines[n])) + 1

\* the file with quotes of every kind has been parsed
C26_Witness ==
    /\ ParseDone
    /\ file = QuotesFile
    /\ Len(parsed.built) = 2
    /\ parsed.built[1][W_title] = <<"a", ",", "b">>
    /\ parsed.built[1][W_platform] = <<"c", "d">>
    /\ parsed.built[2][W_title] = <<"\"", "x", "\"", ",", "y">>
    /\ parsed.built[2][W_platform] = <<"z", "w", ",", "v">>

\* a header name without its surrounding quotes
StripSurrounding(name) ==
    IF Len(name) >= 2 /\ name[1] = QUOTE /\ name[Len(name)] = QUOTE
    THEN SubSeq(name, 2, Len(name) - 1)
    ELSE name

\* the header names of a line read with quote awareness: split on the commas
\* outside quotes, each piece trimmed and stripped of its surrounding quotes
QuoteAwareHeaders(line) ==
    LET pieces == SplitAt(line, OuterCommas(line))
    IN  [k \in 1..Len(pieces) |-> StripSurrounding(Trim(pieces[k]))]

\* C27: import parses the header line with the same quote awareness as data
\* lines: split only on commas outside quotes, each name trimmed and stripped of
\* its surrounding quotes only, so that names and cells are aligned by position
\* even when a quoted header name holds a comma
C27_QuoteAwareHeader ==
    (ParseDone /\ NonBlankCount(file) >= 2) =>
        ParseHeaders(Lines(file)[1]) = QuoteAwareHeaders(Lines(file)[1])

\* the ids of the problems in the list of ProblemsPage, and in the table
ListIds == {problemList[k].id : k \in 1..Len(problemList)}
TableIds == {ids[i] : i \in 1..Len(ids)}

\* C28: in the problems list, once a delete of problem p has completed
\* successfully p is absent from the list and stays absent under every
\* interleaving of further deletes and their completions, and a delete that
\* fails leaves the list unchanged
C28_DeletedStaysAbsent ==
    [][/\ \A call \in deletes \ deletes' :
             (answer'.to = "handleDelete" /\ ~answer'.error) => call.id \notin ListIds'
       /\ \A id \in ListIds' : id \in ListIds \/ id \in TableIds
       /\ FailureReturned("handleDelete") => problemList' = problemList]_vars

\* the Dashboard's total-solved figure and the figures of the Analytics page
\* for the rows the table holds now
DashboardTotalSolved == ComputeStats(SelectSolved(user), zone, now).totalSolved
AnalyticsSolved == {r.solvedProblems : r \in Renders(SelectForAnalytics(user), zone, now)}

\* C29: for every collection of records the store can hold, among them
\* imported records with status Solved and no solved_at, the Dashboard's
\* total-solved figure equals the Analytics page's problems-solved figure
\* computed over the same collection
C29_SolvedFiguresAgree ==
    user # NULL => AnalyticsSolved = {DashboardTotalSolved}

\* the text exported from an empty answer of the table has been chosen for
\* import and parsed
EmptyExportImported == ReImport /\ exportedData = <<>>

\* C30 as stated: the CSV text produced by exporting an empty collection of
\* records is accepted by import as a valid file with zero records rather than
\* being rejected with a hard failure
C30_EmptyExportAccepted ==
    EmptyExportImported =>
        /\ parsed.outcome \notin {"MalformedInput", "MissingColumns", "NoValidRows"}
        /\ parsed.problems = <<>>

\* C30: the CSV text produced by exporting an empty collection of records is
\* the header line alone, and import rejects it with MalformedInput, sending
\* no insert and leaving the table as it was
C30_EmptyExportRejected ==
    EmptyExportImported =>
        /\ csvContent = Join(exportHeaders, COMMA)
        /\ parsed.outcome = "MalformedInput"
        /\ parsed.message = MsgMalformed
        /\ parsed.problems = <<>>
        /\ requests["handleImport"] = <<>>
        /\ importPc = "idle"
        /\ store = <<>>

C30_Witness ==
    /\ EmptyExportImported
    /\ user = U1
    /\ ~isImporting

====
